---- MODULE Spec2Model ----
(***************************************************************************)
(* Verification model of the nanit bridge: the baby.State merge            *)
(* (pkg/baby/state.go), the state store with its subscribers, the          *)
(* request/response engine of pkg/client/websocket_conn.go, the RTMP       *)
(* server with its broadcasters, and the HLS transcoder.                   *)
(***************************************************************************)
EXTENDS Integers, Sequences, FiniteSets, TLC

VARIABLES
    \* inputs and results of the merge runs
    mS, mU1, mU2, mS0, mU0, mPc, mR1, mR2, mRU, mRC,
    \* the state store: records, its mutex, the goroutines calling Update
    babiesByUID, stateMutex, stack, spawned,
    \* the websocket connection: request ids, pending requests, the calls of
    \* SendRequest with their response channels, the inbound reader
    lastRequestID, resHandlers, cPc, cId, cType, resC, cResult,
    rPc, rFrame, rCand, serial, panicked,
    \* the message handlers, the copy handleMessage iterates over, and the
    \* handlers invoked for the frame being dispatched
    msgHandlers, subscribedHandlers, hLog,
    \* history of the connection, for the properties
    allocOrder, firstMatch, resolved, deliveries, drained,
    \* the RTMP server: the registry of broadcasters, their fan-out sets, the
    \* teardowns started and not yet run, the publisher connections
    broadcastersByUID, subscribers, teardown, pPc, pPkt, pktCount, sent,
    \* the subscriber connections: position, broadcaster found, queue,
    \* connection, close notification, packets written downstream
    sPc, sB, pktC, ncClosed, closeC, written,
    \* history of the subscriptions, for the properties
    attachedAt, regAtAttach, dropped,
    \* the wall clock and the last IsActivelyStreaming query: when it was
    \* made, the packet time it saw, its answer
    wallClock, qNow, qLast, active,
    \* one HLSTranscoder: its fields, the monitor and the retry timer of
    \* each process handle, the Start calls made and the last one's result
    isRunning, status, lastError, startTime, retryCount, cmd, stopChan,
    launched, monPc, connected, retryPc, startCalls, startRet, hlsPanicked,
    \* the transcoder's clock, the clock reading at the launch of each
    \* process, and the Code of the last error
    hNow, launchedAt, lastCode,
    \* the Stop calls made, the handles whose process is alive, and whether
    \* the HLS directory holds files
    stopCalls, alive, files,
    \* the HLSManager: its registry, the transcoders it has made with the
    \* UID and isRunning of each, its cleanup stop channel
    transcoders, created, tUID, tRunning, stopCleanup, mgrPanicked,
    \* the App: Opts.RTMP.AutoStart, the position of the connection handler
    \* of the watched device, app.connections, the liveness subscription, the
    \* handler's context, the liveness changes made and those whose callback
    \* has still to read the store, the runs of requestLocalStreaming, the
    \* retry monitor and its ticks, the delayed StartTranscoding calls
    autoStart, wsPc, connections, subscribed, ctxDone, changes, triggered,
    watchPending, tasks, nTasks, retryMon, monTicks, hlsPending,
    \* the sensor messages: the one each goroutine was given, and the record
    \* of the device before them
    received, before,
    \* the playlist watchers of the transcoder: the handles whose watcher has
    \* found a fresh playlist and has still to take h.mutex
    seen

mergeVars == <<mS, mU1, mU2, mS0, mU0, mPc, mR1, mR2, mRU, mRC>>

storeVars == <<babiesByUID, stateMutex, stack, spawned>>

fanVars == <<msgHandlers, subscribedHandlers, hLog>>

connVars ==
    <<lastRequestID, resHandlers, cPc, cId, cType, resC, cResult,
      rPc, rFrame, rCand, serial, panicked, fanVars,
      allocOrder, firstMatch, resolved, deliveries, drained>>

castVars ==
    <<broadcastersByUID, subscribers, teardown, pPc, pPkt, pktCount, sent,
      sPc, sB, pktC, ncClosed, closeC, written,
      attachedAt, regAtAttach, dropped>>

liveVars == <<wallClock, qNow, qLast, active>>

hlsVars ==
    <<isRunning, status, lastError, startTime, retryCount, cmd, stopChan,
      launched, monPc, connected, retryPc, startCalls, startRet, hlsPanicked,
      hNow, launchedAt, lastCode, stopCalls, alive, files>>

mgrVars ==
    <<transcoders, created, tUID, tRunning, stopCleanup, mgrPanicked>>

appVars ==
    <<autoStart, wsPc, connections, subscribed, ctxDone, changes, triggered,
      watchPending, tasks, nTasks, retryMon, monTicks, hlsPending>>

sensorVars == <<received, before>>

watchVars == <<seen>>

vars ==
    <<mergeVars, storeVars, connVars, castVars, liveVars, hlsVars, mgrVars,
      appVars, sensorVars, watchVars>>

\* what the steps of one component leave alone
exceptMerge ==
    <<hlsVars, storeVars, connVars, castVars, liveVars, mgrVars, appVars,
      sensorVars, watchVars>>

exceptStore ==
    <<hlsVars, mergeVars, connVars, castVars, liveVars, mgrVars, appVars,
      sensorVars, watchVars>>

exceptConn ==
    <<hlsVars, mergeVars, storeVars, castVars, liveVars, mgrVars, appVars,
      sensorVars, watchVars>>

exceptCast ==
    <<hlsVars, mergeVars, stateMutex, stack, spawned, connVars, liveVars,
      mgrVars, appVars, sensorVars, watchVars>>

exceptLive ==
    <<mergeVars, stateMutex, stack, spawned, connVars, castVars, hlsVars,
      mgrVars, appVars, sensorVars, watchVars>>

exceptHls ==
    <<mergeVars, storeVars, connVars, castVars, liveVars, mgrVars, appVars,
      sensorVars, watchVars>>

(***************************************************************************)
(* Bounds                                                                  *)
(***************************************************************************)
\* number of distinct values a present field can carry
NumVals == 2

\* goroutines that call Update concurrently
NumProducers == 2

\* stream requests started by the liveness watcher and not yet answered
MaxSpawned == 1

\* concurrent calls of SendRequest on one connection
MaxCalls == 2

\* frames the connection receives
MaxFrames == 2

\* message handlers registered on one connection
MaxHandlers == 2

\* publisher connections the RTMP server accepts for one device
MaxPublishers == 2

\* subscriber connections the RTMP server accepts for one device
MaxSubscribers == 2

\* packets read from the publishers
MaxPackets == 3

\* packets read while publishers come and go
LifecyclePackets == 1

\* capacity of a subscriber's packet queue
QueueCap == 1

\* clock ticks the streaming queries are followed for
MaxTicks == 24

\* calls of HLSTranscoder.Start
MaxStarts == 2

\* process handles one transcoder creates
MaxProcs == 2

\* calls of HLSTranscoder.Stop
MaxStops == 2

\* transcoders the manager makes
MaxTranscoders == 3

\* runs of requestLocalStreaming
MaxTasks == 3

\* updates of the store made by the device's connection and the RTMP server
MaxChanges == 3

\* ticks of the retry monitor
MaxMonitorTicks == 2

\* timeouts of one run of requestLocalStreaming
MaxTimeouts == 1

\* ticks the transcoder's clock is followed for
MaxClock == 4

\* phrases in one error text
MaxPhrases == 2

(***************************************************************************)
(* baby.State and baby.DeviceInfo: every field is a pointer, nil or set    *)
(***************************************************************************)
\* the nil pointer of an optional field
Nil == -1

Vals == 1..NumVals

Opt == {Nil} \cup Vals

\* the pointer fields of State other than DeviceInfo, in declaration order
ScalarFields ==
    {"StreamState", "StreamRequestState", "IsWebsocketAlive",
     "LastVideoPacketTime", "MotionTimestamp", "SoundTimestamp",
     "Temperature", "IsNight", "TemperatureMilli", "HumidityMilli",
     "NightLight", "Standby"}

\* the fields of DeviceInfo
InfoFields ==
    {"FirmwareVersion", "HardwareVersion", "DeviceMode", "MountingMode",
     "WiFiNetwork", "WiFiBand", "NightVision", "Volume", "SleepMode",
     "StatusLight", "MicMute", "AntiFlicker", "StreamingError",
     "UpgradeDownloaded", "AvailableSoundtracks",
     "TempLowThreshold", "TempHighThreshold",
     "HumidityLowThreshold", "HumidityHighThreshold",
     "MobileBitrate", "MobileFPS", "DVRBitrate", "DVRFPS",
     "AnalyticsBitrate", "AnalyticsFPS", "LastUpdated"}

\* the fields mergeDeviceInfo copies from the patch (one "if" each)
MergedInfoFields ==
    {"FirmwareVersion", "HardwareVersion", "DeviceMode", "MountingMode",
     "WiFiNetwork", "WiFiBand", "NightVision", "Volume", "SleepMode",
     "StatusLight", "MicMute", "AntiFlicker", "StreamingError",
     "UpgradeDownloaded", "AvailableSoundtracks",
     "TempLowThreshold", "TempHighThreshold",
     "HumidityLowThreshold", "HumidityHighThreshold",
     "MobileBitrate", "MobileFPS", "DVRBitrate", "DVRFPS",
     "AnalyticsBitrate", "AnalyticsFPS"}

\* the DeviceInfo pointer: <<>> is nil, <<d>> points to the struct d
NoInfo == << >>

HasInfo(di) == di # NoInfo

\* NewState(): every field nil
NewState == [sc |-> [f \in ScalarFields |-> Nil], di |-> NoInfo]

(***************************************************************************)
(* State.Merge and State.mergeDeviceInfo                                   *)
(***************************************************************************)
\* the condition of the "else if" of Merge: the patch field is set and
\* differs from the current one
FieldChangesNilOnly(curr, patch) == patch # Nil /\ curr = Nil

FieldChanges(curr, patch) == patch # Nil /\ (curr = Nil \/ curr # patch)

\* mergeDeviceInfo: ptr tells which pointer is returned
mergeDeviceInfo(current, patch) ==
    IF ~HasInfo(patch) THEN [ptr |-> "current", di |-> current]
    ELSE IF ~HasInfo(current) THEN [ptr |-> "patch", di |-> patch]
    ELSE [ptr |-> "merged",
          di  |-> << [g \in InfoFields |->
                        IF g \in MergedInfoFields /\ patch[1][g] # Nil
                        THEN patch[1][g] ELSE current[1][g]] >>]

\* the DeviceInfo branch of Merge: taken when the patch carries a DeviceInfo
MergeInfoAlways(state, stateUpdate) ==
    IF ~HasInfo(state.di)
    THEN [di |-> stateUpdate.di, changed |-> TRUE]
    ELSE LET m == mergeDeviceInfo(state.di, stateUpdate.di)
         IN  [di |-> m.di, changed |-> m.ptr # "current"]

MergeInfo(state, stateUpdate) ==
    IF HasInfo(stateUpdate.di)
    THEN IF ~HasInfo(state.di)
         THEN [di |-> stateUpdate.di, changed |-> TRUE]
         ELSE LET m == mergeDeviceInfo(state.di, stateUpdate.di)
              IN  [di |-> m.di, changed |-> m.ptr # "current"]
    ELSE [di |-> state.di, changed |-> FALSE]

\* Merge: st is the record returned, changed tells whether it is a new
\* record (TRUE) or the receiver itself (FALSE)
Merge(state, stateUpdate) ==
    LET info    == MergeInfo(state, stateUpdate)
        changed == info.changed
                   \/ \E f \in ScalarFields :
                        FieldChanges(state.sc[f], stateUpdate.sc[f])
        newState ==
            [sc |-> [f \in ScalarFields |->
                        IF FieldChanges(state.sc[f], stateUpdate.sc[f])
                        THEN stateUpdate.sc[f] ELSE state.sc[f]],
             di |-> info.di]
    IN  IF changed THEN [st |-> newState, changed |-> TRUE]
        ELSE [st |-> state, changed |-> FALSE]

NoResult == [st |-> NewState, changed |-> FALSE]

(***************************************************************************)
(* The data of a WebsocketConnection                                       *)
(***************************************************************************)
Calls == 1..MaxCalls

RequestTypes == {"PUT_STREAMING", "GET_SETTINGS"}

\* ids a response frame may carry: those of the calls and one never issued
FrameIds == 1..(MaxCalls + 1)

NoFrame == [id |-> 0, type |-> "none", serial |-> 0]

NoRequest == [type |-> "none", call |-> 0]

\* make(chan *Response, 1)
NewChan == [buf |-> << >>, closed |-> FALSE]

NoAnswer == [err |-> "pending", res |-> NoFrame]

(***************************************************************************)
(* The data of the state store and the updates its producers send          *)
(***************************************************************************)
StreamState_Unknown == 0
StreamState_Unhealthy == 1
StreamState_Alive == 2

StreamRequestState_NotRequested == 0
StreamRequestState_Requested == 1
StreamRequestState_RequestFailed == 2

UIDs == {"baby", "other"}

\* the device whose websocket handler registered the liveness watcher
WatchedUID == "baby"

Procs == 1..NumProducers

SetField(st, f, v) == [st EXCEPT !.sc[f] = v]

GetStreamRequestState(st) ==
    IF st.sc["StreamRequestState"] # Nil THEN st.sc["StreamRequestState"]
    ELSE StreamRequestState_NotRequested

GetStreamState(st) ==
    IF st.sc["StreamState"] # Nil THEN st.sc["StreamState"]
    ELSE StreamState_Unknown

GetIsWebsocketAlive(st) ==
    IF st.sc["IsWebsocketAlive"] # Nil THEN st.sc["IsWebsocketAlive"] = 1
    ELSE FALSE

\* the updates the producers of the repository send to the store
EmptyPatch == NewState

\* NewState().SetWebsocketAlive(value)
WebsocketAlivePatch(value) ==
    SetField(NewState, "IsWebsocketAlive", IF value THEN 1 ELSE 0)

UnhealthyPatch == SetField(NewState, "StreamState", StreamState_Unhealthy)

\* an update to Alive that leaves the request state alone
AliveOnlyPatch == SetField(NewState, "StreamState", StreamState_Alive)

AlivePatch ==
    SetField(SetField(NewState, "StreamState", StreamState_Alive),
             "StreamRequestState", StreamRequestState_NotRequested)

RequestStatePatch(v) == SetField(NewState, "StreamRequestState", v)

\* the watched device reports everything; of the other device only the loss
\* of its stream is followed
ProducerPatches(uid) ==
    IF uid = WatchedUID
    THEN {EmptyPatch, UnhealthyPatch, AlivePatch}
    ELSE {EmptyPatch, UnhealthyPatch}

\* the subscribers, in the order they are invoked
Subscribers == <<"watcher", "resync">>

\* the mutex after the merge: released before the callbacks run
MutexHeldDuringDispatch(p) == p

MutexAfterMerge(p) == 0

Top(p) == stack[p][Len(stack[p])]

InCall(p) == stack[p] # << >>

SetTop(p, f) == [stack EXCEPT ![p][Len(stack[p])] = f]

NewFrame(uid, patch) ==
    [uid |-> uid, patch |-> patch, pc |-> "lock", changed |-> FALSE,
     wrote |-> FALSE, todo |-> << >>, invoked |-> {}, hist |-> FALSE]

(***************************************************************************)
(* The data of the RTMP server                                             *)
(***************************************************************************)
Pubs == 1..MaxPublishers

Subs == 1..MaxSubscribers

\* the device whose stream path the connections name
StreamUID == "baby"

\* the reading of the wall clock when a packet arrives, in seconds
ClockReadings == {100}

\* an error update that leaves the packet time alone
ReadErrorPatchKeepingTime ==
    SetField(NewState, "StreamState", StreamState_Unhealthy)

\* NewState().SetStreamState(Unhealthy).SetLastVideoPacketTime(0)
ReadErrorPatch ==
    SetField(SetField(NewState, "StreamState", StreamState_Unhealthy),
             "LastVideoPacketTime", 0)

\* NewState().SetLastVideoPacketTime(time.Now().Unix())
PacketTimePatch(t) == SetField(NewState, "LastVideoPacketTime", t)

\* the record of the store after Update(uid, patch)
Updated(uid, patch) ==
    [babiesByUID EXCEPT ![uid] = Merge(babiesByUID[uid], patch).st]

NoRegistry == [u \in {} |-> 0]

\* a broadcaster is named by the publisher connection that created it
HasBroadcaster(uid) == uid \in DOMAIN broadcastersByUID

\* make(chan av.Packet, QueueCap)
NewQueue == [buf |-> << >>, closed |-> FALSE]

(***************************************************************************)
(* The wall clock and IsActivelyStreaming                                  *)
(***************************************************************************)
\* the clock is followed in ticks of half a second
TicksPerSecond == 2

\* the clock when the server starts, in seconds since the epoch
ClockStart == 100

\* 10*time.Second
ActiveWindow == 10

\* time.Now().Unix(): whole seconds
UnixSeconds(ticks) == ticks \div TicksPerSecond

\* a window that includes its end
WithinWindowInclusive(elapsed) == elapsed <= ActiveWindow * TicksPerSecond

\* time.Since(lastPacketTime) < 10*time.Second, elapsed in ticks
WithinWindow(elapsed) == elapsed < ActiveWindow * TicksPerSecond

\* State.IsActivelyStreaming at clock reading now (in ticks)
IsActivelyStreaming(state, now) ==
    IF state.sc["LastVideoPacketTime"] = Nil
    THEN FALSE
    ELSE WithinWindow(now - state.sc["LastVideoPacketTime"] * TicksPerSecond)

(***************************************************************************)
(* The HLS transcoder's data                                               *)
(***************************************************************************)
StatusStarting == "starting"

StatusConnecting == "connecting"

StatusStreaming == "streaming"

StatusError == "error"

StatusStopped == "stopped"

ErrorTypeRTMPConnection == "rtmp_connection"

ErrorTypeRTMPTimeout == "rtmp_timeout"

ErrorTypeFFmpegFailed == "ffmpeg_failed"

ErrorTypeNetworkError == "network_error"

ErrorTypeUnknown == "unknown"

\* maxRetries of NewHLSTranscoder
maxRetries == 5

\* retryDelay of NewHLSTranscoder, in seconds
retryDelay == 10

\* the process handles
Handles == 1..MaxProcs

\* the handles of a first process and of maxRetries restarts
ChainHandles == 1..(maxRetries + 1)

\* the error types shouldRetry retries for
Retryable ==
    {ErrorTypeRTMPConnection, ErrorTypeRTMPTimeout, ErrorTypeNetworkError}

\* the phrases classifyAndSetError looks for in an error text
Phrases ==
    {"Connection refused", "Connection reset", "No route to host",
     "Connection timed out", "timeout", "Server error", "403", "404",
     "exit status"}

\* An error text is the set of the phrases that occur in it (none of the
\* phrases above is part of another); a nil error is NilError.
NilError == {"<nil>"}

\* h.lastError of a transcoder that has no error
NoStreamError == "<nil>"

\* strings.Contains(errStr, phrase)
Contains(err, phrase) == phrase \in err

\* how an ffmpeg process can end
ExitErrors == {{"Connection refused"}, {"Invalid data found"}, NilError}

\* the error texts the classification is followed for
SampleTexts == {t \in SUBSET Phrases : Cardinality(t) <= MaxPhrases}

\* the text of the error a launch fails with
LaunchError == {"executable file not found"}

\* one tick of the transcoder's clock, in seconds
SecondsPerTick == 5

\* 10*time.Second in classifyAndSetError
ClassifyWindow == 10

\* time.Since(h.startTime), in seconds
SinceStart == (hNow - startTime) * SecondsPerTick

\* the error type classifyAndSetError records for an error text, since
\* being the seconds since h.startTime
Classify(err, since) ==
    IF \/ Contains(err, "Connection refused")
       \/ Contains(err, "Connection reset")
       \/ Contains(err, "No route to host")
    THEN ErrorTypeRTMPConnection
    ELSE IF \/ Contains(err, "Connection timed out")
            \/ Contains(err, "timeout")
    THEN ErrorTypeRTMPTimeout
    ELSE IF \/ Contains(err, "Server error")
            \/ Contains(err, "403")
            \/ Contains(err, "404")
    THEN ErrorTypeRTMPConnection
    ELSE IF Contains(err, "exit status")
    THEN IF since < ClassifyWindow
         THEN ErrorTypeRTMPConnection
         ELSE ErrorTypeNetworkError
    ELSE ErrorTypeUnknown

\* a retry whatever the error type
shouldRetryAnyType(count, errType) == count < maxRetries

\* shouldRetry
shouldRetry(count, errType) ==
    /\ count < maxRetries
    /\ errType \in {ErrorTypeRTMPConnection, ErrorTypeRTMPTimeout,
                    ErrorTypeNetworkError}

\* the retry counter a Start leaves as it found it
RetryCountKept == retryCount

\* h.retryCount = 0 in Start
RetryCountAfterStart == 0

(***************************************************************************)
(* The state after construction                                            *)
(***************************************************************************)
\* NewHLSTranscoder, with room for the process handles of H
HlsIdleOver(H) ==
    /\ isRunning = FALSE
    /\ status = StatusStopped
    /\ lastError = NoStreamError
    /\ startTime = 0
    /\ retryCount = 0
    /\ cmd = 0
    /\ stopChan = "open"
    /\ launched = 0
    /\ monPc = [i \in H |-> "none"]
    /\ connected = {}
    /\ retryPc = [i \in H |-> "none"]
    /\ startCalls = 0
    /\ startRet = "none"
    /\ hlsPanicked = FALSE
    /\ hNow = 0
    /\ launchedAt = [i \in H |-> 0]
    /\ lastCode = NilError
    /\ stopCalls = 0
    /\ alive = {}
    /\ files = FALSE

HlsIdle == HlsIdleOver(Handles)

\* no playlist watcher has found a playlist
WatchIdle == seen = {}

\* no sensor message has arrived
SensorIdle ==
    /\ received = [p \in Procs |-> << >>]
    /\ before = NewState

\* a run of requestLocalStreaming that has not been started
NoTask ==
    [origin |-> "none", status |-> "none", pc |-> "none", sent |-> 0,
     timeouts |-> 0, change |-> 0, sentFailed |-> FALSE,
     outcome |-> "none"]

\* the App before a connection of the watched device is ready
AppIdleWith(auto) ==
    /\ autoStart = auto
    /\ wsPc = "idle"
    /\ connections = {}
    /\ subscribed = FALSE
    /\ ctxDone = FALSE
    /\ changes = 0
    /\ triggered = {}
    /\ watchPending = {}
    /\ tasks = [t \in 1..MaxTasks |-> NoTask]
    /\ nTasks = 0
    /\ retryMon = "off"
    /\ monTicks = 0
    /\ hlsPending = 0

AppIdle == AppIdleWith(TRUE)

\* NewHLSManager
MgrIdle ==
    /\ transcoders = [u \in UIDs |-> 0]
    /\ created = 0
    /\ tUID = [t \in 1..MaxTranscoders |-> "none"]
    /\ tRunning = [t \in 1..MaxTranscoders |-> FALSE]
    /\ stopCleanup = "open"
    /\ mgrPanicked = FALSE

LiveIdle ==
    /\ wallClock = ClockStart * TicksPerSecond
    /\ qNow = 0
    /\ qLast = Nil
    /\ active = FALSE

CastIdle ==
    /\ broadcastersByUID = NoRegistry
    /\ subscribers = [b \in Pubs |-> {}]
    /\ teardown = {}
    /\ pPc = [p \in Pubs |-> "idle"]
    /\ pPkt = [p \in Pubs |-> 0]
    /\ pktCount = 0
    /\ sent = [b \in Pubs |-> << >>]
    /\ sPc = [s \in Subs |-> "idle"]
    /\ sB = [s \in Subs |-> 0]
    /\ pktC = [s \in Subs |-> NewQueue]
    /\ ncClosed = [s \in Subs |-> FALSE]
    /\ closeC = [s \in Subs |-> "open"]
    /\ written = [s \in Subs |-> << >>]
    /\ attachedAt = [s \in Subs |-> 0]
    /\ regAtAttach = [s \in Subs |-> 0]
    /\ dropped = [s \in Subs |-> FALSE]

MergeIdle ==
    /\ mS = NewState /\ mU1 = NewState /\ mU2 = NewState
    /\ mS0 = NewState /\ mU0 = NewState
    /\ mPc = "idle"
    /\ mR1 = NoResult /\ mR2 = NoResult /\ mRU = NoResult /\ mRC = NoResult

StoreIdle ==
    /\ babiesByUID = [u \in UIDs |-> NewState]
    /\ stateMutex = 0
    /\ stack = [p \in Procs |-> << >>]
    /\ spawned = 0

ConnIdle ==
    /\ lastRequestID = 0
    /\ resHandlers = [i \in {} |-> NoRequest]
    /\ cPc = [k \in Calls |-> "idle"]
    /\ cId = [k \in Calls |-> 0]
    /\ cType = [k \in Calls |-> "none"]
    /\ resC = [k \in Calls |-> NewChan]
    /\ cResult = [k \in Calls |-> NoAnswer]
    /\ rPc = "idle"
    /\ rFrame = NoFrame
    /\ rCand = NoRequest
    /\ serial = 0
    /\ panicked = FALSE
    /\ msgHandlers = << >>
    /\ subscribedHandlers = << >>
    /\ hLog = << >>
    /\ allocOrder = << >>
    /\ firstMatch = [k \in Calls |-> NoFrame]
    /\ resolved = [k \in Calls |-> NoFrame]
    /\ deliveries = [k \in Calls |-> 0]
    /\ drained = [k \in Calls |-> FALSE]

(***************************************************************************)
(* Merge applied to bounded inputs: records with at most one scalar field  *)
(***************************************************************************)
OneScalar(f, v) == [g \in ScalarFields |-> IF g = f THEN v ELSE Nil]

OneInfo(f, v) == << [g \in InfoFields |-> IF g = f THEN v ELSE Nil] >>

FocusStates(fs, fd) ==
    {[sc |-> OneScalar(fs, v), di |-> d] :
        v \in Opt, d \in {NoInfo} \cup {OneInfo(fd, w) : w \in Opt}}

ScalarOnly(fs) == {[sc |-> OneScalar(fs, v), di |-> NoInfo] : v \in Opt}

InfoOnly(fd) ==
    {[sc |-> NewState.sc, di |-> d] :
        d \in {NoInfo} \cup {OneInfo(fd, w) : w \in Opt}}

MergeStart(s, u1, u2) ==
    /\ mS = s /\ mU1 = u1 /\ mU2 = u2
    /\ mS0 = s /\ mU0 = u1
    /\ mPc = "in"
    /\ mR1 = NoResult /\ mR2 = NoResult /\ mRU = NoResult /\ mRC = NoResult
    /\ StoreIdle
    /\ ConnIdle
    /\ CastIdle
    /\ LiveIdle
    /\ WatchIdle
    /\ SensorIdle
    /\ AppIdle
    /\ MgrIdle
    /\ HlsIdle

\* a record and a patch, the patch applied twice
InitMerge ==
    \E fs \in ScalarFields, fd \in InfoFields :
        \E s \in FocusStates(fs, fd), p \in FocusStates(fs, fd) :
            MergeStart(s, p, p)

\* a record and two patches on one field
InitAssoc ==
    \/ \E fs \in ScalarFields :
        \E s \in ScalarOnly(fs), u1 \in ScalarOnly(fs), u2 \in ScalarOnly(fs) :
            MergeStart(s, u1, u2)
    \/ \E fd \in InfoFields :
        \E s \in InfoOnly(fd), u1 \in InfoOnly(fd), u2 \in InfoOnly(fd) :
            MergeStart(s, u1, u2)

\* r1 := s.Merge(U1)
MergeFirst ==
    /\ mPc = "in"
    /\ mR1' = Merge(mS, mU1)
    /\ mPc' = "once"
    /\ UNCHANGED <<mS, mU1, mU2, mS0, mU0, mR2, mRU, mRC>>
    /\ UNCHANGED exceptMerge

\* r2 := r1.Merge(U2)
MergeSecond ==
    /\ mPc = "once"
    /\ mR2' = Merge(mR1.st, mU2)
    /\ mPc' = "twice"
    /\ UNCHANGED <<mS, mU1, mU2, mS0, mU0, mR1, mRU, mRC>>
    /\ UNCHANGED exceptMerge

\* ru := U1.Merge(U2)
ComposePatches ==
    /\ mPc = "twice"
    /\ mRU' = Merge(mU1, mU2)
    /\ mPc' = "composed"
    /\ UNCHANGED <<mS, mU1, mU2, mS0, mU0, mR1, mR2, mRC>>
    /\ UNCHANGED exceptMerge

\* rc := s.Merge(ru)
ApplyComposed ==
    /\ mPc = "composed"
    /\ mRC' = Merge(mS, mRU.st)
    /\ mPc' = "done"
    /\ UNCHANGED <<mS, mU1, mU2, mS0, mU0, mR1, mR2, mRU>>
    /\ UNCHANGED exceptMerge

NextMerge == MergeFirst \/ MergeSecond

NextAssoc == MergeFirst \/ MergeSecond \/ ComposePatches \/ ApplyComposed

SpecMerge == InitMerge /\ [][NextMerge]_vars

SpecAssoc == InitAssoc /\ [][NextAssoc]_vars

(***************************************************************************)
(* Properties of Merge                                                     *)
(***************************************************************************)
\* the value of DeviceInfo field g of a record, nil without a DeviceInfo
InfoField(st, g) == IF HasInfo(st.di) THEN st.di[1][g] ELSE Nil

\* C1: after s.Merge(p) every top-level scalar field of the result is p's
\* value when p sets the field and s's value (set or nil) otherwise, and
\* neither s nor p has been modified.
C1_ScalarFieldRule ==
    mPc # "in" =>
        /\ \A f \in ScalarFields :
            mR1.st.sc[f] = IF mU1.sc[f] # Nil THEN mU1.sc[f] ELSE mS.sc[f]
        /\ mS = mS0
        /\ mU1 = mU0

\* C1 witness: a merge whose patch overwrites a set field with another value
C1_Witness ==
    /\ mPc = "once"
    /\ \E f \in ScalarFields :
        /\ mS.sc[f] # Nil /\ mU1.sc[f] # Nil /\ mS.sc[f] # mU1.sc[f]
        /\ mR1.st.sc[f] = mU1.sc[f]
    /\ \E f \in ScalarFields : mU1.sc[f] = Nil

\* C2: when the record and the patch both carry a DeviceInfo, every
\* DeviceInfo field of the result, LastUpdated included, is the patch's value
\* when the patch sets it and the current value otherwise.
C2_InfoFieldRule ==
    (mPc # "in" /\ HasInfo(mS.di) /\ HasInfo(mU1.di)) =>
        /\ HasInfo(mR1.st.di)
        /\ \A g \in InfoFields :
            mR1.st.di[1][g] =
                IF mU1.di[1][g] # Nil THEN mU1.di[1][g] ELSE mS.di[1][g]

\* C3: the second application of the same patch changes no field and
\* reports no change (Merge returns the record it was called on).
C3_SamePatchTwice ==
    (mPc = "twice" /\ mU2 = mU1) =>
        /\ mR2.st = mR1.st
        /\ mR2.changed = FALSE

\* C5: Merge(Merge(s, U1), U2) equals Merge(s, Merge(U1, U2)) field by field
\* and every field (DeviceInfo fields included) is U2's value if U2 sets it,
\* else U1's if U1 sets it, else s's.
C5_Associative ==
    mPc = "done" =>
        /\ mR2.st = mRC.st
        /\ \A f \in ScalarFields :
            mR2.st.sc[f] = IF mU2.sc[f] # Nil THEN mU2.sc[f]
                           ELSE IF mU1.sc[f] # Nil THEN mU1.sc[f]
                           ELSE mS.sc[f]
        /\ \A g \in InfoFields :
            InfoField(mR2.st, g) =
                IF InfoField(mU2, g) # Nil THEN InfoField(mU2, g)
                ELSE IF InfoField(mU1, g) # Nil THEN InfoField(mU1, g)
                ELSE InfoField(mS, g)

(***************************************************************************)
(* The state store (StateManager) and the callbacks it invokes             *)
(***************************************************************************)
InitStore ==
    /\ StoreIdle /\ MergeIdle /\ ConnIdle /\ CastIdle /\ LiveIdle
    /\ WatchIdle
    /\ SensorIdle /\ AppIdle /\ MgrIdle /\ HlsIdle

\* a producer calls Update(uid, patch)
CallUpdate(p, uid, patch) ==
    /\ ~InCall(p)
    /\ stack' = [stack EXCEPT ![p] = << NewFrame(uid, patch) >>]
    /\ UNCHANGED <<babiesByUID, stateMutex, spawned>>
    /\ UNCHANGED exceptStore

\* a stream request started by the watcher gets its answer and records it
RunStreamTask(p, outcome) ==
    /\ ~InCall(p)
    /\ spawned > 0
    /\ spawned' = spawned - 1
    /\ stack' = [stack EXCEPT
                    ![p] = << NewFrame(WatchedUID, RequestStatePatch(outcome)) >>]
    /\ UNCHANGED <<babiesByUID, stateMutex>>
    /\ UNCHANGED exceptStore

\* Update: take the mutex, merge, store the merged record
UpdateLock(p) ==
    /\ InCall(p)
    /\ Top(p).pc = "lock"
    /\ stateMutex = 0
    /\ LET f == Top(p)
           r == Merge(babiesByUID[f.uid], f.patch)
       IN  /\ babiesByUID' = [babiesByUID EXCEPT ![f.uid] = r.st]
           /\ stack' = SetTop(p, [f EXCEPT !.pc = "locked",
                                           !.changed = r.changed,
                                           !.wrote = (r.st # babiesByUID[f.uid]),
                                           !.todo = IF r.changed THEN Subscribers
                                                    ELSE << >>])
    /\ stateMutex' = p
    /\ UNCHANGED spawned
    /\ UNCHANGED exceptStore

\* Update: leave the critical section before any callback runs; a change
\* goes to the history sink first, which never touches the store
UpdateUnlock(p) ==
    /\ InCall(p)
    /\ Top(p).pc = "locked"
    /\ stateMutex' = MutexAfterMerge(p)
    /\ stack' = SetTop(p, [Top(p) EXCEPT !.pc = "dispatch",
                                         !.hist = Top(p).changed])
    /\ UNCHANGED <<babiesByUID, spawned>>
    /\ UNCHANGED exceptStore

\* the condition of the liveness watcher: the watched device turned unhealthy
WatcherTriggers(uid, stateUpdate) ==
    /\ uid = WatchedUID
    /\ stateUpdate.sc["StreamState"] # Nil
    /\ stateUpdate.sc["StreamState"] = StreamState_Unhealthy

\* the subscribers of the snapshot are invoked in order with (uid, update);
\* a callback whose condition fails returns at once, the others go on to the
\* store
Notify(p) ==
    /\ InCall(p)
    /\ Top(p).pc = "dispatch"
    /\ Top(p).todo # << >>
    /\ LET f == Top(p)
           k == Head(f.todo)
       IN  stack' = SetTop(p,
                IF WatcherTriggers(f.uid, f.patch)
                THEN [f EXCEPT !.invoked = f.invoked \cup {k},
                               !.pc = IF k = "watcher" THEN "watch_read"
                                      ELSE "resync_call"]
                ELSE [f EXCEPT !.invoked =
                                  f.invoked \cup {f.todo[i] : i \in DOMAIN f.todo},
                               !.todo = << >>])
    /\ UNCHANGED <<babiesByUID, stateMutex, spawned>>
    /\ UNCHANGED exceptStore

\* the watcher reads the store (read lock) and starts a stream request
\* unless the last one was rejected
WatcherRead(p) ==
    /\ InCall(p)
    /\ Top(p).pc = "watch_read"
    /\ stateMutex = 0
    /\ spawned' =
        IF GetStreamRequestState(babiesByUID[WatchedUID])
               # StreamRequestState_RequestFailed
              /\ spawned < MaxSpawned
        THEN spawned + 1 ELSE spawned
    /\ stack' = SetTop(p, [Top(p) EXCEPT !.pc = "dispatch",
                                         !.todo = Tail(Top(p).todo)])
    /\ UNCHANGED <<babiesByUID, stateMutex>>
    /\ UNCHANGED exceptStore

\* a subscriber that updates the device being processed from its callback
ResyncCall(p) ==
    /\ InCall(p)
    /\ Top(p).pc = "resync_call"
    /\ stack' = [stack EXCEPT ![p] =
                    Append(SetTop(p, [Top(p) EXCEPT !.pc = "resync_wait"])[p],
                           NewFrame(Top(p).uid,
                                    RequestStatePatch(StreamRequestState_Requested)))]
    /\ UNCHANGED <<babiesByUID, stateMutex, spawned>>
    /\ UNCHANGED exceptStore

\* Update returns; a nested Update returns into the callback that made it
UpdateReturn(p) ==
    /\ InCall(p)
    /\ Top(p).pc = "dispatch"
    /\ Top(p).todo = << >>
    /\ LET rest == SubSeq(stack[p], 1, Len(stack[p]) - 1)
       IN  stack' = [stack EXCEPT ![p] =
                IF rest = << >> THEN rest
                ELSE [rest EXCEPT ![Len(rest)] =
                        [rest[Len(rest)] EXCEPT
                            !.pc = "dispatch",
                            !.todo = Tail(rest[Len(rest)].todo)]]]
    /\ stateMutex' = IF stateMutex = p /\ Len(stack[p]) = 1 THEN 0 ELSE stateMutex
    /\ UNCHANGED <<babiesByUID, spawned>>
    /\ UNCHANGED exceptStore

\* one step of goroutine p inside a call
ProcStep(p) ==
    \/ UpdateLock(p) \/ UpdateUnlock(p) \/ Notify(p)
    \/ WatcherRead(p) \/ ResyncCall(p) \/ UpdateReturn(p)

NextStore ==
    \/ \E p \in Procs, uid \in UIDs :
        \E patch \in ProducerPatches(uid) : CallUpdate(p, uid, patch)
    \/ \E p \in Procs :
        \E outcome \in {StreamRequestState_Requested,
                        StreamRequestState_RequestFailed} :
            RunStreamTask(p, outcome)
    \/ \E p \in Procs : UpdateLock(p)
    \/ \E p \in Procs : UpdateUnlock(p)
    \/ \E p \in Procs : Notify(p)
    \/ \E p \in Procs : WatcherRead(p)
    \/ \E p \in Procs : ResyncCall(p)
    \/ \E p \in Procs : UpdateReturn(p)

SpecStore == InitStore /\ [][NextStore]_vars

(***************************************************************************)
(* Properties of the state store                                           *)
(***************************************************************************)
Frames(p) == {stack[p][i] : i \in 1..Len(stack[p])}

\* C4: an Update whose patch sets no field never changes the stored record,
\* reports no change, and invokes neither a subscriber nor the history sink,
\* whatever the record of the device (also when it has none yet).
C4_EmptyUpdateSilent ==
    \A p \in Procs : \A f \in Frames(p) :
        (f.patch = EmptyPatch /\ f.pc # "lock") =>
            /\ ~f.changed
            /\ ~f.wrote
            /\ f.todo = << >>
            /\ f.invoked = {}
            /\ ~f.hist

\* C4 witness: an empty update has been merged into a device that has a
\* record while another one has been merged into a device without a record
C4_Witness ==
    \E p \in Procs, q \in Procs :
        /\ InCall(p) /\ InCall(q)
        /\ Top(p).patch = EmptyPatch /\ Top(p).pc = "dispatch"
        /\ Top(p).uid = WatchedUID /\ babiesByUID[WatchedUID] # NewState
        /\ Top(q).patch = EmptyPatch /\ Top(q).pc = "dispatch"
        /\ Top(q).uid # WatchedUID /\ babiesByUID[Top(q).uid] = NewState

\* the goroutine holding the mutex, if any, is another one that can go on
HolderRuns(p) ==
    /\ stateMutex \in Procs \ {p}
    /\ ENABLED ProcStep(stateMutex)

\* C6: no Update call and no subscriber callback is ever stuck: a goroutine
\* inside Update (also one nested in a callback that reads the store or
\* updates the device being processed) can take its next step, or waits for
\* the mutex held by another goroutine that can take its next step.
C6_NoDeadlock ==
    \A p \in Procs : InCall(p) => (ENABLED ProcStep(p) \/ HolderRuns(p))

\* C6 witness: inside the callbacks of an Update, after the watcher has read
\* the store, a nested Update of the same device has merged and dispatches
C6_Witness ==
    \E p \in Procs :
        /\ Len(stack[p]) = 2
        /\ "watcher" \in stack[p][1].invoked
        /\ stack[p][2].uid = stack[p][1].uid
        /\ stack[p][2].pc = "dispatch"
        /\ stack[p][2].changed

\* C6 as progress: every Update call returns
C6_EveryUpdateReturns ==
    \A p \in Procs : InCall(p) ~> ~InCall(p)

FairSpecStore ==
    /\ SpecStore
    /\ \A p \in Procs :
        /\ WF_vars(ProcStep(p))
        /\ SF_vars(UpdateLock(p))
        /\ SF_vars(WatcherRead(p))

(***************************************************************************)
(* WebsocketConnection: SendRequest, its awaiter, handleResponse           *)
(***************************************************************************)
InitConn ==
    /\ MergeIdle /\ StoreIdle /\ ConnIdle /\ CastIdle /\ LiveIdle
    /\ WatchIdle
    /\ SensorIdle /\ AppIdle /\ MgrIdle /\ HlsIdle

\* the calls are interchangeable: they enter SendRequest in index order
NextToCall(k) == \A j \in Calls : j < k => cPc[j] # "idle"

\* an increment that is not atomic: a call that read the counter before a
\* concurrent call wrote it back gets the same id
AllocIDLostUpdate(k, t) ==
    /\ ~panicked
    /\ cPc[k] = "idle"
    /\ NextToCall(k)
    /\ lastRequestID' = IF \E j \in Calls : cPc[j] = "register"
                        THEN lastRequestID ELSE lastRequestID + 1
    /\ cId' = [cId EXCEPT ![k] = lastRequestID']
    /\ cType' = [cType EXCEPT ![k] = t]
    /\ resC' = [resC EXCEPT ![k] = NewChan]
    /\ cPc' = [cPc EXCEPT ![k] = "register"]
    /\ allocOrder' = Append(allocOrder, lastRequestID')
    /\ UNCHANGED <<resHandlers, cResult, rPc, rFrame, rCand, serial, panicked,
                   firstMatch, resolved, deliveries, drained>>
    /\ UNCHANGED fanVars
    /\ UNCHANGED exceptConn

\* id := atomic.AddInt32(&conn.lastRequestID, 1)
AllocID(k, t) ==
    /\ ~panicked
    /\ cPc[k] = "idle"
    /\ NextToCall(k)
    /\ lastRequestID' = lastRequestID + 1
    /\ cId' = [cId EXCEPT ![k] = lastRequestID + 1]
    /\ cType' = [cType EXCEPT ![k] = t]
    /\ resC' = [resC EXCEPT ![k] = NewChan]
    /\ cPc' = [cPc EXCEPT ![k] = "register"]
    /\ allocOrder' = Append(allocOrder, lastRequestID + 1)
    /\ UNCHANGED <<resHandlers, cResult, rPc, rFrame, rCand, serial, panicked,
                   firstMatch, resolved, deliveries, drained>>
    /\ UNCHANGED fanVars
    /\ UNCHANGED exceptConn

\* conn.resHandlers[id] = unhandledRequest{...}, under the write lock
Register(k) ==
    /\ ~panicked
    /\ cPc[k] = "register"
    /\ resHandlers' =
        [i \in DOMAIN resHandlers \cup {cId[k]} |->
            IF i = cId[k] THEN [type |-> cType[k], call |-> k]
            ELSE resHandlers[i]]
    /\ cPc' = [cPc EXCEPT ![k] = "send"]
    /\ UNCHANGED <<lastRequestID, cId, cType, resC, cResult, rPc, rFrame,
                   rCand, serial, panicked, allocOrder, firstMatch, resolved,
                   deliveries, drained>>
    /\ UNCHANGED fanVars
    /\ UNCHANGED exceptConn

\* conn.SendMessage(m): on a marshalling error the awaiter returns the error
SendMessage(k, ok) ==
    /\ ~panicked
    /\ cPc[k] = "send"
    /\ IF ok
       THEN /\ cPc' = [cPc EXCEPT ![k] = "await"]
            /\ UNCHANGED cResult
       ELSE /\ cPc' = [cPc EXCEPT ![k] = "done"]
            /\ cResult' = [cResult EXCEPT
                              ![k] = [err |-> "failed to send request",
                                      res |-> NoFrame]]
    /\ UNCHANGED <<lastRequestID, resHandlers, cId, cType, resC, rPc, rFrame,
                   rCand, serial, panicked, allocOrder, firstMatch, resolved,
                   deliveries, drained>>
    /\ UNCHANGED fanVars
    /\ UNCHANGED exceptConn

\* the awaiter: case <-timer.C
AwaitTimeout(k) ==
    /\ ~panicked
    /\ cPc[k] = "await"
    /\ resC' = [resC EXCEPT ![k].closed = TRUE]
    /\ cResult' = [cResult EXCEPT
                      ![k] = [err |-> "Request timeout", res |-> NoFrame]]
    /\ cPc' = [cPc EXCEPT ![k] = "done"]
    /\ UNCHANGED <<lastRequestID, resHandlers, cId, cType, rPc, rFrame,
                   rCand, serial, panicked, allocOrder, firstMatch, resolved,
                   deliveries, drained>>
    /\ UNCHANGED fanVars
    /\ UNCHANGED exceptConn

\* the awaiter: case res := <-resC
AwaitResponse(k) ==
    /\ ~panicked
    /\ cPc[k] = "await"
    /\ resC[k].buf # << >>
    /\ cResult' = [cResult EXCEPT
                      ![k] = [err |-> "", res |-> Head(resC[k].buf)]]
    /\ resC' = [resC EXCEPT ![k] = [buf |-> << >>, closed |-> TRUE]]
    /\ cPc' = [cPc EXCEPT ![k] = "done"]
    /\ UNCHANGED <<lastRequestID, resHandlers, cId, cType, rPc, rFrame,
                   rCand, serial, panicked, allocOrder, firstMatch, resolved,
                   deliveries, drained>>
    /\ UNCHANGED fanVars
    /\ UNCHANGED exceptConn

Registered(k) == cPc[k] \in {"send", "await", "done"}

\* the socket delivers a response frame to handleMessage, which passes it
\* to handleResponse first
ReceiveFrame(id, t) ==
    /\ ~panicked
    /\ rPc = "idle"
    /\ serial < MaxFrames
    /\ serial' = serial + 1
    /\ rFrame' = [id |-> id, type |-> t, serial |-> serial + 1]
    /\ rPc' = "lookup"
    /\ subscribedHandlers' = << >>
    /\ hLog' = << >>
    /\ UNCHANGED <<lastRequestID, resHandlers, cPc, cId, cType, resC, cResult,
                   rCand, panicked, allocOrder, firstMatch, resolved,
                   deliveries, drained, msgHandlers>>
    /\ UNCHANGED exceptConn

\* the test of handleResponse: an entry with this id exists and its request
\* has the type the response names
MatchesAnyType(r) == r.id \in DOMAIN resHandlers

Matches(r) ==
    /\ r.id \in DOMAIN resHandlers
    /\ r.type = resHandlers[r.id].type

\* handleResponse: look the request up under the read lock
Lookup ==
    /\ ~panicked
    /\ rPc = "lookup"
    /\ IF Matches(rFrame)
       THEN /\ rCand' = resHandlers[rFrame.id]
            /\ rPc' = "delete"
       ELSE /\ rCand' = NoRequest
            /\ rPc' = "fanout"
    /\ firstMatch' =
        [k \in Calls |->
            IF Registered(k) /\ cId[k] = rFrame.id /\ cType[k] = rFrame.type
               /\ firstMatch[k] = NoFrame
            THEN rFrame ELSE firstMatch[k]]
    /\ UNCHANGED <<lastRequestID, resHandlers, cPc, cId, cType, resC, cResult,
                   rFrame, serial, panicked, allocOrder, resolved,
                   deliveries, drained>>
    /\ UNCHANGED fanVars
    /\ UNCHANGED exceptConn

\* the pending table after delete(conn.resHandlers, requestID)
TableKept(id) == resHandlers

TableWithout(id) == [i \in DOMAIN resHandlers \ {id} |-> resHandlers[i]]

\* handleResponse: delete the entry under the write lock
Delete ==
    /\ ~panicked
    /\ rPc = "delete"
    /\ resHandlers' = TableWithout(rFrame.id)
    /\ resolved' = [resolved EXCEPT ![rCand.call] = rFrame]
    /\ rPc' = "select"
    /\ UNCHANGED <<lastRequestID, cPc, cId, cType, resC, cResult, rFrame,
                   rCand, serial, panicked, allocOrder, firstMatch,
                   deliveries, drained>>
    /\ UNCHANGED fanVars
    /\ UNCHANGED exceptConn

\* HandleResponse: select { case <-resC: return; default: ... }
Select ==
    /\ ~panicked
    /\ rPc = "select"
    /\ LET c == rCand.call
       IN  IF resC[c].buf # << >>
           THEN /\ resC' = [resC EXCEPT ![c].buf = << >>]
                /\ drained' = [drained EXCEPT ![c] = TRUE]
                /\ rPc' = "fanout"
           ELSE /\ UNCHANGED <<resC, drained>>
                /\ rPc' = IF resC[c].closed THEN "fanout" ELSE "sendchan"
    /\ UNCHANGED <<lastRequestID, resHandlers, cPc, cId, cType, cResult,
                   rFrame, rCand, serial, panicked, allocOrder, firstMatch,
                   resolved, deliveries>>
    /\ UNCHANGED fanVars
    /\ UNCHANGED exceptConn

\* HandleResponse: resC <- res; a send on a closed channel panics
SendChan ==
    /\ ~panicked
    /\ rPc = "sendchan"
    /\ LET c == rCand.call
       IN  IF resC[c].closed
           THEN /\ panicked' = TRUE
                /\ UNCHANGED <<resC, deliveries, rPc>>
           ELSE /\ resC[c].buf = << >>
                /\ resC' = [resC EXCEPT ![c].buf = << rFrame >>]
                /\ deliveries' = [deliveries EXCEPT ![c] = @ + 1]
                /\ rPc' = "fanout"
                /\ UNCHANGED panicked
    /\ UNCHANGED <<lastRequestID, resHandlers, cPc, cId, cType, cResult,
                   rFrame, rCand, serial, allocOrder, firstMatch, resolved,
                   drained>>
    /\ UNCHANGED fanVars
    /\ UNCHANGED exceptConn

\* the socket delivers a frame that is not a response (a request of the
\* device, a keepalive): handleMessage skips handleResponse
ReceiveRequest ==
    /\ ~panicked
    /\ rPc = "idle"
    /\ serial < MaxFrames
    /\ serial' = serial + 1
    /\ rFrame' = [id |-> 0, type |-> "REQUEST", serial |-> serial + 1]
    /\ rPc' = "fanout"
    /\ subscribedHandlers' = << >>
    /\ hLog' = << >>
    /\ UNCHANGED <<lastRequestID, resHandlers, cPc, cId, cType, resC, cResult,
                   rCand, panicked, allocOrder, firstMatch, resolved,
                   deliveries, drained, msgHandlers>>
    /\ UNCHANGED exceptConn

\* RegisterMessageHandler: append under the write lock; handlers are named
\* by their position
RegisterMessageHandler ==
    /\ ~panicked
    /\ Len(msgHandlers) < MaxHandlers
    /\ msgHandlers' = Append(msgHandlers, Len(msgHandlers) + 1)
    /\ UNCHANGED <<lastRequestID, resHandlers, cPc, cId, cType, resC, cResult,
                   rPc, rFrame, rCand, serial, panicked, allocOrder,
                   firstMatch, resolved, deliveries, drained,
                   subscribedHandlers, hLog>>
    /\ UNCHANGED exceptConn

\* the list handleMessage iterates over
LiveHandlers == msgHandlers

CopiedHandlers == subscribedHandlers

\* handleMessage: copy the handler list under the read lock
CopyHandlers ==
    /\ ~panicked
    /\ rPc = "fanout"
    /\ subscribedHandlers' = msgHandlers
    /\ rPc' = "invoke"
    /\ UNCHANGED <<lastRequestID, resHandlers, cPc, cId, cType, resC, cResult,
                   rFrame, rCand, serial, panicked, allocOrder, firstMatch,
                   resolved, deliveries, drained, msgHandlers, hLog>>
    /\ UNCHANGED exceptConn

\* handleMessage: for _, handler := range subscribedHandlers { handler(m, conn) }
InvokeHandler ==
    /\ ~panicked
    /\ rPc = "invoke"
    /\ Len(hLog) < Len(CopiedHandlers)
    /\ hLog' = Append(hLog, CopiedHandlers[Len(hLog) + 1])
    /\ UNCHANGED <<lastRequestID, resHandlers, cPc, cId, cType, resC, cResult,
                   rPc, rFrame, rCand, serial, panicked, allocOrder,
                   firstMatch, resolved, deliveries, drained, msgHandlers,
                   subscribedHandlers>>
    /\ UNCHANGED exceptConn

\* handleMessage returns after the last handler of the copy
HandlersDone ==
    /\ ~panicked
    /\ rPc = "invoke"
    /\ Len(hLog) >= Len(CopiedHandlers)
    /\ rPc' = "idle"
    /\ UNCHANGED <<lastRequestID, resHandlers, cPc, cId, cType, resC, cResult,
                   rFrame, rCand, serial, panicked, allocOrder, firstMatch,
                   resolved, deliveries, drained>>
    /\ UNCHANGED fanVars
    /\ UNCHANGED exceptConn

NextConn ==
    \/ \E k \in Calls, t \in RequestTypes : AllocID(k, t)
    \/ \E k \in Calls : Register(k)
    \/ \E k \in Calls, ok \in BOOLEAN : SendMessage(k, ok)
    \/ \E k \in Calls : AwaitTimeout(k)
    \/ \E k \in Calls : AwaitResponse(k)
    \/ \E id \in FrameIds, t \in RequestTypes : ReceiveFrame(id, t)
    \/ Lookup
    \/ Delete
    \/ Select
    \/ SendChan
    \/ CopyHandlers
    \/ HandlersDone

SpecConn == InitConn /\ [][NextConn]_vars

\* the connection with one request in flight, device frames of both kinds
\* and handlers registered at any time
NextDispatch ==
    \/ \E t \in RequestTypes : AllocID(1, t)
    \/ Register(1)
    \/ \E ok \in BOOLEAN : SendMessage(1, ok)
    \/ AwaitTimeout(1)
    \/ AwaitResponse(1)
    \/ \E id \in FrameIds, t \in RequestTypes : ReceiveFrame(id, t)
    \/ ReceiveRequest
    \/ RegisterMessageHandler
    \/ Lookup
    \/ Delete
    \/ Select
    \/ SendChan
    \/ CopyHandlers
    \/ InvokeHandler
    \/ HandlersDone

SpecDispatch == InitConn /\ [][NextDispatch]_vars

(***************************************************************************)
(* Properties of the connection                                            *)
(***************************************************************************)
Allocated(k) == cPc[k] # "idle"

\* C7: concurrent SendRequest calls get distinct ids, handed out as 1, 2,
\* 3, ... in this order, and every pending entry is the one its own call
\* recorded under its own id.
C7_DistinctIncreasingIds ==
    /\ allocOrder = [i \in 1..Len(allocOrder) |-> i]
    /\ \A j \in Calls, k \in Calls :
        (Allocated(j) /\ Allocated(k) /\ j # k) => cId[j] # cId[k]
    /\ \A i \in DOMAIN resHandlers :
        LET k == resHandlers[i].call
        IN  Registered(k) /\ cId[k] = i /\ cType[k] = resHandlers[i].type
    /\ \A k \in Calls :
        (Registered(k) /\ resolved[k] = NoFrame) =>
            (cId[k] \in DOMAIN resHandlers /\ resHandlers[cId[k]].call = k)

\* C7 witness: two calls run concurrently, the second past the first, and
\* both have their entry in the table
C7_Witness ==
    /\ Len(allocOrder) = 2
    /\ \A k \in {1, 2} : cId[k] \in DOMAIN resHandlers
    /\ cPc[1] = "send" /\ cPc[2] = "await"

\* C8: a pending request is resolved only by a response with its id and
\* its type; any other response leaves the table and the awaiters alone;
\* an awaiter only ever receives a response bearing its own id and type.
C8_ResolvedOnlyByMatch ==
    \A k \in Calls :
        /\ resolved[k] # NoFrame =>
            (resolved[k].id = cId[k] /\ resolved[k].type = cType[k])
        /\ (Registered(k) /\ cId[k] \notin DOMAIN resHandlers) =>
            resolved[k] # NoFrame
        /\ resC[k].buf # << >> =>
            (Head(resC[k].buf).id = cId[k] /\ Head(resC[k].buf).type = cType[k])
        /\ cResult[k].res # NoFrame =>
            (cResult[k].res.id = cId[k] /\ cResult[k].res.type = cType[k])
        /\ (rPc = "idle" /\ rFrame # NoFrame /\ rFrame.id = cId[k]
              /\ rFrame.type # cType[k] /\ Registered(k)
              /\ resolved[k] = NoFrame) =>
            (cId[k] \in DOMAIN resHandlers /\ resC[k].buf = << >>)

\* C8 witness: the later of two requests was answered first and its awaiter
\* got that answer, after a response of the wrong type for the earlier
\* request was ignored
C8_Witness ==
    \E j \in Calls, k \in Calls :
        /\ Registered(j) /\ Registered(k)
        /\ cId[j] < cId[k]
        /\ cResult[k].res # NoFrame
        /\ resolved[j] = NoFrame
        /\ cId[j] \in DOMAIN resHandlers
        /\ rPc = "idle" /\ rFrame.id = cId[j] /\ rFrame.type # cType[j]

C10_TimeoutDiscardsEntry ==
    \A k \in Calls :
        (cPc[k] = "done" /\ cResult[k].err = "Request timeout") =>
            /\ cResult[k].res = NoFrame
            /\ cId[k] \notin DOMAIN resHandlers

(***************************************************************************)
(* The RTMP server: handleConnection for publishers and subscribers        *)
(***************************************************************************)
InitCast ==
    /\ MergeIdle /\ StoreIdle /\ ConnIdle /\ CastIdle /\ LiveIdle
    /\ WatchIdle
    /\ SensorIdle /\ AppIdle /\ MgrIdle /\ HlsIdle

\* connections are interchangeable: they are accepted in index order
NextPublisher(p) == \A q \in Pubs : q < p => pPc[q] # "idle"

NextSubscriber(s) == \A r \in Subs : r < s => sPc[r] # "idle"

\* a publisher connects. getNewPublisher swaps the registry entry under the
\* write lock and starts the teardown of the broadcaster it held; the store
\* is told that the stream is alive
PublisherConnect(p) ==
    /\ pPc[p] = "idle"
    /\ NextPublisher(p)
    /\ broadcastersByUID' = [u \in {StreamUID} |-> p]
    /\ teardown' = IF HasBroadcaster(StreamUID)
                   THEN teardown \cup {broadcastersByUID[StreamUID]}
                   ELSE teardown
    /\ babiesByUID' = Updated(StreamUID, AlivePatch)
    /\ pPc' = [pPc EXCEPT ![p] = "read"]
    /\ UNCHANGED <<subscribers, pPkt, pktCount, sent, sPc, sB, pktC, ncClosed,
                   closeC, written, attachedAt, regAtAttach, dropped>>
    /\ UNCHANGED exceptCast

\* the queue of subscriber s after a send that waits for room
QueueAfterBlockingSend(s, pkt) ==
    [pktC[s] EXCEPT !.buf = Append(@, pkt)]

\* the queue of subscriber s after the send of broadcast: the packet is
\* dropped when the queue is full
QueueAfterSend(s, pkt) ==
    IF Len(pktC[s].buf) < QueueCap
    THEN [pktC[s] EXCEPT !.buf = Append(@, pkt)]
    ELSE pktC[s]

\* a send that waits for room can only be made when every queue has room
CanSendBlocking(p) == \A s \in subscribers[p] : Len(pktC[s].buf) < QueueCap

CanSend(p) == TRUE

\* one turn of the publisher loop: c.ReadPacket() succeeds at clock reading
\* t, the packet time is recorded in the store, and publisher.broadcast(pkt)
\* puts the packet on the queue of every subscriber of the fan-out set
ReadPacket(p, t) ==
    /\ pPc[p] = "read"
    /\ pktCount < MaxPackets
    /\ CanSend(p)
    /\ pktCount' = pktCount + 1
    /\ pPkt' = [pPkt EXCEPT ![p] = pktCount + 1]
    /\ babiesByUID' = Updated(StreamUID, PacketTimePatch(t))
    /\ pktC' = [s \in Subs |->
                  IF s \in subscribers[p] THEN QueueAfterSend(s, pktCount + 1)
                  ELSE pktC[s]]
    /\ dropped' = [s \in Subs |->
                     dropped[s]
                     \/ (s \in subscribers[p] /\ Len(pktC[s].buf) >= QueueCap)]
    /\ sent' = [sent EXCEPT ![p] = Append(@, pktCount + 1)]
    /\ UNCHANGED <<broadcastersByUID, subscribers, teardown, pPc, sPc, sB,
                   ncClosed, closeC, written, attachedAt, regAtAttach>>
    /\ UNCHANGED exceptCast

\* a closePublisher that deletes the entry of the device whatever it holds
RegistryCleared(p) == NoRegistry

\* closePublisher: delete the entry if it is still this publisher's
RegistryWithout(p) ==
    IF HasBroadcaster(StreamUID) /\ broadcastersByUID[StreamUID] = p
    THEN NoRegistry
    ELSE broadcastersByUID

\* c.ReadPacket() fails: Update(babyUID, Unhealthy + packet time 0), then
\* the locked part of closePublisher
ReadError(p) ==
    /\ pPc[p] = "read"
    /\ babiesByUID' = Updated(StreamUID, ReadErrorPatch)
    /\ broadcastersByUID' = RegistryWithout(p)
    /\ pPc' = [pPc EXCEPT ![p] = "closesubs"]
    /\ UNCHANGED <<subscribers, teardown, pPkt, pktCount, sent, sPc, sB, pktC,
                   ncClosed, closeC, written, attachedAt, regAtAttach, dropped>>
    /\ UNCHANGED exceptCast

\* closeSubscribers of broadcaster b: every queue of the fan-out set is closed
QueuesAfterClose(b) ==
    [s \in Subs |-> IF s \in subscribers[b]
                    THEN [pktC[s] EXCEPT !.closed = TRUE]
                    ELSE pktC[s]]

\* closePublisher: b.closeSubscribers(), then the publisher task returns
PublisherCloseSubscribers(p) ==
    /\ pPc[p] = "closesubs"
    /\ pktC' = QueuesAfterClose(p)
    /\ subscribers' = [subscribers EXCEPT ![p] = {}]
    /\ pPc' = [pPc EXCEPT ![p] = "done"]
    /\ UNCHANGED <<broadcastersByUID, teardown, pPkt, pktCount, sent, sPc, sB,
                   ncClosed, closeC, written, attachedAt, regAtAttach, dropped>>
    /\ UNCHANGED babiesByUID
    /\ UNCHANGED exceptCast

\* go existingBroadcaster.closeSubscribers()
Teardown(b) ==
    /\ b \in teardown
    /\ pktC' = QueuesAfterClose(b)
    /\ subscribers' = [subscribers EXCEPT ![b] = {}]
    /\ teardown' = teardown \ {b}
    /\ UNCHANGED <<broadcastersByUID, pPc, pPkt, pktCount, sent, sPc, sB,
                   ncClosed, closeC, written, attachedAt, regAtAttach, dropped>>
    /\ UNCHANGED babiesByUID
    /\ UNCHANGED exceptCast

\* the handler of a publisher connection, step by step
PubStep(p) == PublisherCloseSubscribers(p)

\* the broadcaster a lookup made on demand would yield
LookupOrCreate == IF HasBroadcaster(StreamUID) THEN broadcastersByUID[StreamUID] ELSE 1

\* getNewSubscriber: the broadcaster of the registry, 0 when there is none
LookupBroadcaster == IF HasBroadcaster(StreamUID) THEN broadcastersByUID[StreamUID] ELSE 0

\* getNewSubscriber: read the registry under the read lock
SubscriberLookup(s) ==
    /\ sPc[s] = "idle"
    /\ NextSubscriber(s)
    /\ sB' = [sB EXCEPT ![s] = LookupBroadcaster]
    /\ sPc' = [sPc EXCEPT ![s] = IF LookupBroadcaster = 0 THEN "reject"
                                 ELSE "attach"]
    /\ UNCHANGED <<broadcastersByUID, subscribers, teardown, pPc, pPkt,
                   pktCount, sent, pktC, ncClosed, closeC, written, attachedAt,
                   regAtAttach, dropped>>
    /\ UNCHANGED babiesByUID
    /\ UNCHANGED exceptCast

\* subscriber == nil: nc.Close() and return
SubscriberReject(s) ==
    /\ sPc[s] = "reject"
    /\ ncClosed' = [ncClosed EXCEPT ![s] = TRUE]
    /\ sPc' = [sPc EXCEPT ![s] = "done"]
    /\ UNCHANGED <<broadcastersByUID, subscribers, teardown, pPc, pPkt,
                   pktCount, sent, sB, pktC, closeC, written, attachedAt,
                   regAtAttach, dropped>>
    /\ UNCHANGED babiesByUID
    /\ UNCHANGED exceptCast

\* a queue that starts with the last packet the broadcaster sent
AttachQueueWithLast(b) ==
    [buf |-> IF sent[b] = << >> THEN << >> ELSE << sent[b][Len(sent[b])] >>,
     closed |-> FALSE]

\* the queue a new subscriber of broadcaster b starts with
AttachQueue(b) == NewQueue

\* broadcaster.newSubscriber(): a new queue joins the fan-out set of the
\* broadcaster that was looked up
SubscriberAttach(s) ==
    /\ sPc[s] = "attach"
    /\ subscribers' = [subscribers EXCEPT ![sB[s]] = @ \cup {s}]
    /\ pktC' = [pktC EXCEPT ![s] = AttachQueue(sB[s])]
    /\ attachedAt' = [attachedAt EXCEPT ![s] = Len(sent[sB[s]])]
    /\ regAtAttach' = [regAtAttach EXCEPT ![s] = LookupBroadcaster]
    /\ sPc' = [sPc EXCEPT ![s] = "loop"]
    /\ UNCHANGED <<broadcastersByUID, teardown, pPc, pPkt, pktCount, sent, sB,
                   ncClosed, closeC, written, dropped>>
    /\ UNCHANGED babiesByUID
    /\ UNCHANGED exceptCast

\* case pkt, open := <-subscriber.pktC with a packet: c.WritePacket(pkt)
SubscriberWrite(s) ==
    /\ sPc[s] = "loop"
    /\ pktC[s].buf # << >>
    /\ written' = [written EXCEPT ![s] = Append(@, Head(pktC[s].buf))]
    /\ pktC' = [pktC EXCEPT ![s].buf = Tail(@)]
    /\ UNCHANGED <<broadcastersByUID, subscribers, teardown, pPc, pPkt,
                   pktCount, sent, sPc, sB, ncClosed, closeC, attachedAt,
                   regAtAttach, dropped>>
    /\ UNCHANGED babiesByUID
    /\ UNCHANGED exceptCast

\* case pkt, open := <-subscriber.pktC on a closed, empty queue: nc.Close()
\* and return
SubscriberQuit(s) ==
    /\ sPc[s] = "loop"
    /\ pktC[s].buf = << >>
    /\ pktC[s].closed
    /\ ncClosed' = [ncClosed EXCEPT ![s] = TRUE]
    /\ sPc' = [sPc EXCEPT ![s] = "done"]
    /\ UNCHANGED <<broadcastersByUID, subscribers, teardown, pPc, pPkt,
                   pktCount, sent, sB, pktC, closeC, written, attachedAt,
                   regAtAttach, dropped>>
    /\ UNCHANGED babiesByUID
    /\ UNCHANGED exceptCast

\* where the subscriber loop goes after unsubscribe(): it has no return, the
\* select is entered again
AfterUnsubscribe == "loop"

\* the downstream connection closes and the loop takes case <-closeC:
\* unsubscribe() takes the subscriber out of the fan-out set
SubscriberUnsubscribe(s) ==
    /\ sPc[s] = "loop"
    /\ closeC[s] = "open"
    /\ subscribers' = [subscribers EXCEPT ![sB[s]] = @ \ {s}]
    /\ closeC' = [closeC EXCEPT ![s] = "handled"]
    /\ sPc' = [sPc EXCEPT ![s] = AfterUnsubscribe]
    /\ UNCHANGED <<broadcastersByUID, teardown, pPc, pPkt, pktCount, sent, sB,
                   pktC, ncClosed, written, attachedAt, regAtAttach, dropped>>
    /\ UNCHANGED babiesByUID
    /\ UNCHANGED exceptCast

\* the handler of a subscriber connection, step by step
SubStep(s) ==
    \/ SubscriberReject(s) \/ SubscriberAttach(s) \/ SubscriberWrite(s)
    \/ SubscriberQuit(s) \/ SubscriberUnsubscribe(s)

\* publishers and subscribers coming and going, with few packets
NextCast ==
    \/ \E p \in Pubs : PublisherConnect(p)
    \/ \E p \in Pubs, t \in ClockReadings :
        pktCount < LifecyclePackets /\ ReadPacket(p, t)
    \/ \E p \in Pubs : ReadError(p)
    \/ \E p \in Pubs : PublisherCloseSubscribers(p)
    \/ \E b \in Pubs : Teardown(b)
    \/ \E s \in Subs : SubscriberLookup(s)
    \/ \E s \in Subs : SubscriberReject(s)
    \/ \E s \in Subs : SubscriberAttach(s)
    \/ \E s \in Subs : SubscriberWrite(s)
    \/ \E s \in Subs : SubscriberQuit(s)
    \/ \E s \in Subs : SubscriberUnsubscribe(s)

SpecCast == InitCast /\ [][NextCast]_vars

\* one publisher streaming to the subscribers
NextStream ==
    \/ PublisherConnect(1)
    \/ \E t \in ClockReadings : ReadPacket(1, t)
    \/ ReadError(1)
    \/ PublisherCloseSubscribers(1)
    \/ \E s \in Subs : SubscriberLookup(s)
    \/ \E s \in Subs : SubscriberReject(s)
    \/ \E s \in Subs : SubscriberAttach(s)
    \/ \E s \in Subs : SubscriberWrite(s)
    \/ \E s \in Subs : SubscriberQuit(s)
    \/ \E s \in Subs : SubscriberUnsubscribe(s)

SpecStream == InitCast /\ [][NextStream]_vars

\* every task of the server that can take a step eventually takes one
FairSpecCast ==
    /\ SpecCast
    /\ \A p \in Pubs : WF_vars(PubStep(p))
    /\ \A b \in Pubs : WF_vars(Teardown(b))
    /\ \A s \in Subs : WF_vars(SubStep(s))

(***************************************************************************)
(* Properties of the RTMP server                                           *)
(***************************************************************************)
\* the steps of the handler of subscriber s
Entered(s) == sPc[s] = "idle" /\ sPc'[s] # "idle"

Rejected(s) == sPc[s] = "reject" /\ sPc'[s] # "reject"

\* nothing of the registry, the fan-out sets, the queues or the store changes
ServerUntouched ==
    /\ broadcastersByUID' = broadcastersByUID
    /\ subscribers' = subscribers
    /\ pktC' = pktC
    /\ babiesByUID' = babiesByUID

\* C12: a subscribe call made while the device has no publisher gets no
\* subscriber (no queue, no place in a fan-out set), adds nothing to the
\* registry, and its connection is closed with the device state untouched.
C12_NoPublisherNoSubscriber ==
    [][\A s \in Subs :
        /\ (Entered(s) /\ ~HasBroadcaster(StreamUID)) =>
            (sPc'[s] = "reject" /\ sB'[s] = 0 /\ ServerUntouched)
        /\ Rejected(s) =>
            (sPc'[s] = "done" /\ ncClosed'[s] /\ ServerUntouched
             /\ \A b \in Pubs : s \notin subscribers'[b])]_vars

\* C12 witness: a subscriber was turned away after the only publisher had
\* gone, and the registry is empty
C12_Witness ==
    \E s \in Subs :
        /\ sPc[s] = "done" /\ sB[s] = 0 /\ ncClosed[s]
        /\ pPc[1] = "done"
        /\ ~HasBroadcaster(StreamUID)

\* C13: once a second publisher holds the registry entry, a subscription
\* created from then on belongs to the new publisher, and the superseded
\* publisher keeps no subscriber after its teardown has run.
C13_SwapRoutesToNewPublisher ==
    /\ \A s \in Subs :
        (sPc[s] = "loop" /\ regAtAttach[s] # 0) => sB[s] = regAtAttach[s]
    /\ \A b \in Pubs :
        (pPc[b] = "read" /\ HasBroadcaster(StreamUID)
           /\ broadcastersByUID[StreamUID] # b /\ b \notin teardown)
        => subscribers[b] = {}

\* the steps of the handler of publisher p after a failed read
ReadFailed(p) == pPc[p] = "read" /\ pPc'[p] = "closesubs"

SubscribersClosed(p) == pPc[p] = "closesubs" /\ pPc'[p] = "done"

NotRegistered(p) ==
    ~(StreamUID \in DOMAIN broadcastersByUID'
        /\ broadcastersByUID'[StreamUID] = p)

C15_UnsubscribedTaskEnds ==
    \A s \in Subs : (closeC[s] = "handled") ~> (sPc[s] = "done")

\* the rest of C15: the unsubscribe step changes the fan-out set by this
\* subscriber only and leaves the registry, the store and the queues alone
UnsubscribeFrame ==
    [][\A s \in Subs :
        (closeC[s] = "open" /\ closeC'[s] = "handled") =>
            /\ subscribers' = [subscribers EXCEPT ![sB[s]] = @ \ {s}]
            /\ broadcastersByUID' = broadcastersByUID
            /\ babiesByUID' = babiesByUID
            /\ pktC' = pktC]_vars

\* the packets subscriber s has been handed so far, oldest first: those
\* written downstream, then those waiting in its queue
Received(s) == written[s] \o pktC[s].buf

\* the packets its broadcaster has sent since s subscribed
SentSince(s) == SubSeq(sent[sB[s]], attachedAt[s] + 1, Len(sent[sB[s]]))

Attached(s) == sPc[s] \in {"loop", "done"} /\ sB[s] # 0

Increasing(q) == \A i \in 1..(Len(q) - 1) : q[i] < q[i + 1]

C17_BroadcastNeverBlocks ==
    /\ \A p \in Pubs :
        (pPc[p] = "read" /\ pktCount < MaxPackets)
            => \E t \in ClockReadings : ENABLED ReadPacket(p, t)
    /\ \A s \in Subs : Len(pktC[s].buf) <= QueueCap
    /\ \A s \in Subs :
        (Attached(s) /\ s \in subscribers[sB[s]] /\ ~dropped[s])
            => Len(Received(s)) = Len(SentSince(s))

\* C17 witness: one subscriber never drained its queue and lost packets,
\* the publisher went on to its last packet and the other subscriber has
\* written it downstream
C17_Witness ==
    \E s \in Subs, r \in Subs :
        /\ s # r
        /\ written[s] = << >> /\ dropped[s] /\ Len(pktC[s].buf) = QueueCap
        /\ Len(sent[1]) = MaxPackets
        /\ written[r] # << >>
        /\ written[r][Len(written[r])] = MaxPackets

(***************************************************************************)
(* The packet time of a device and the streaming query of the API          *)
(***************************************************************************)
InitLive ==
    /\ MergeIdle /\ StoreIdle /\ ConnIdle /\ CastIdle /\ LiveIdle
    /\ WatchIdle
    /\ SensorIdle /\ AppIdle /\ MgrIdle /\ HlsIdle

\* half a second passes
Tick ==
    /\ wallClock < ClockStart * TicksPerSecond + MaxTicks
    /\ wallClock' = wallClock + 1
    /\ UNCHANGED <<qNow, qLast, active, babiesByUID>>
    /\ UNCHANGED exceptLive

\* the publisher loop records the time of a packet
RecordPacket ==
    /\ babiesByUID' = Updated(StreamUID, PacketTimePatch(UnixSeconds(wallClock)))
    /\ UNCHANGED <<wallClock, qNow, qLast, active>>
    /\ UNCHANGED exceptLive

\* the publisher's read fails: Unhealthy, packet time 0
RecordReadError ==
    /\ babiesByUID' = Updated(StreamUID, ReadErrorPatch)
    /\ UNCHANGED <<wallClock, qNow, qLast, active>>
    /\ UNCHANGED exceptLive

\* the API asks whether the device is streaming
StreamingQuery ==
    /\ qNow' = wallClock
    /\ qLast' = babiesByUID[StreamUID].sc["LastVideoPacketTime"]
    /\ active' = IsActivelyStreaming(babiesByUID[StreamUID], wallClock)
    /\ UNCHANGED <<wallClock, babiesByUID>>
    /\ UNCHANGED exceptLive

NextLive == Tick \/ RecordPacket \/ RecordReadError \/ StreamingQuery

SpecLive == InitLive /\ [][NextLive]_vars

\* C18: the answer of IsActivelyStreaming is true exactly when a packet time
\* is recorded and less than 10 seconds lie between it and the time of the
\* query; it is false when no packet time was ever recorded and false after
\* a read error has set the packet time to 0.
C18_ActiveWithinTenSeconds ==
    qNow # 0 =>
        /\ active <=> (qLast # Nil
                        /\ qNow < (qLast + ActiveWindow) * TicksPerSecond)
        /\ qLast = Nil => ~active
        /\ qLast = 0 => ~active

\* C18 witness: a query made 9.5 seconds after the packet said streaming
C18_Witness ==
    /\ qNow # 0 /\ qLast # Nil /\ qLast # 0
    /\ qNow - qLast * TicksPerSecond = ActiveWindow * TicksPerSecond - 1
    /\ active

(***************************************************************************)
(* The HLS transcoder: Start, Stop, the monitor of a process and the retry *)
(***************************************************************************)
InitHls ==
    /\ MergeIdle /\ StoreIdle /\ ConnIdle /\ CastIdle /\ LiveIdle
    /\ WatchIdle
    /\ SensorIdle /\ AppIdle /\ MgrIdle /\ HlsIdle

\* Start, under h.mutex from entry to return.  launch is what the host does:
\* "ok", "mkdir" (the directory cannot be made) or "exec" (ffmpeg cannot be
\* started).
Start(launch) ==
    /\ ~hlsPanicked
    /\ startCalls < MaxStarts
    /\ startCalls' = startCalls + 1
    /\ UNCHANGED <<stopChan, connected, retryPc, hlsPanicked, stopCalls>>
    /\ IF isRunning
       THEN /\ launch = "ok"
            /\ startRet' = "already"
            /\ UNCHANGED <<isRunning, status, lastError, startTime,
                           retryCount, cmd, launched, monPc, hNow,
                           launchedAt, lastCode, alive, files>>
       ELSE /\ hNow' = hNow + 1
            /\ startTime' = hNow + 1
            /\ retryCount' = RetryCountAfterStart
            /\ IF launch = "mkdir"
               THEN /\ status' = StatusError
                    /\ lastError' = ErrorTypeFFmpegFailed
                    /\ lastCode' = LaunchError
                    /\ startRet' = "failed"
                    /\ UNCHANGED <<isRunning, cmd, launched, monPc,
                                   launchedAt, alive, files>>
               ELSE /\ launched + 1 \in DOMAIN monPc
                    /\ launched' = launched + 1
                    /\ cmd' = launched + 1
                    /\ files' = FALSE
                    /\ IF launch = "exec"
                       THEN /\ status' = StatusError
                            /\ lastError' = ErrorTypeFFmpegFailed
                            /\ lastCode' = LaunchError
                            /\ startRet' = "failed"
                            /\ UNCHANGED <<isRunning, monPc, launchedAt,
                                           alive>>
                       ELSE /\ isRunning' = TRUE
                            /\ alive' = alive \cup {launched + 1}
                            /\ status' = StatusConnecting
                            /\ lastError' = NoStreamError
                            /\ lastCode' = NilError
                            /\ startRet' = "ok"
                            /\ monPc' = [monPc EXCEPT ![launched + 1] = "wait"]
                            /\ launchedAt' =
                                 [launchedAt EXCEPT ![launched + 1] = hNow + 1]
    /\ UNCHANGED exceptHls

\* a Stop that leaves the process alone
NotKilled == alive

\* the process of the current handle is killed where there is one
Killed == alive \ {cmd}

\* Stop, under h.mutex from entry to return: at once on a transcoder that is
\* not running; closing a stop channel that is already closed panics
Stop ==
    /\ ~hlsPanicked
    /\ stopCalls < MaxStops
    /\ stopCalls' = stopCalls + 1
    /\ IF ~isRunning
       THEN UNCHANGED <<isRunning, stopChan, hlsPanicked, alive, files>>
       ELSE IF stopChan = "closed"
       THEN /\ hlsPanicked' = TRUE
            /\ UNCHANGED <<isRunning, stopChan, alive, files>>
       ELSE /\ stopChan' = "closed"
            /\ isRunning' = FALSE
            /\ alive' = Killed
            /\ files' = FALSE
            /\ UNCHANGED hlsPanicked
    /\ UNCHANGED <<status, lastError, startTime, retryCount, cmd, launched,
                   monPc, connected, retryPc, startCalls, startRet, hNow,
                   launchedAt, lastCode>>
    /\ UNCHANGED exceptHls

\* the watcher of monitor finds fresh HLS files
MarkStreaming(i) ==
    /\ ~hlsPanicked
    /\ monPc[i] = "wait"
    /\ i \notin connected
    /\ status' = StatusStreaming
    /\ connected' = connected \cup {i}
    /\ files' = TRUE
    /\ UNCHANGED <<isRunning, lastError, startTime, retryCount, cmd, stopChan,
                   launched, monPc, retryPc, startCalls, startRet,
                   hlsPanicked, hNow, launchedAt, lastCode, stopCalls,
                   alive>>
    /\ UNCHANGED exceptHls

\* monitor's select takes <-h.stopChan
MonitorStopped(i) ==
    /\ ~hlsPanicked
    /\ monPc[i] = "wait"
    /\ stopChan = "closed"
    /\ monPc' = [monPc EXCEPT ![i] = "return"]
    /\ UNCHANGED <<isRunning, status, lastError, startTime, retryCount, cmd,
                   stopChan, launched, connected, retryPc, startCalls,
                   startRet, hlsPanicked, hNow, launchedAt, lastCode,
                   stopCalls, alive, files>>
    /\ UNCHANGED exceptHls

\* the process of handle i ends with err and monitor's select takes <-done:
\* classifyAndSetError, then shouldRetry and scheduleRetry
MonitorDone(i, err) ==
    /\ ~hlsPanicked
    /\ monPc[i] = "wait"
    /\ monPc' = [monPc EXCEPT ![i] = "return"]
    /\ IF err = NilError
       THEN UNCHANGED <<status, lastError, lastCode, retryCount, retryPc>>
       ELSE /\ status' = StatusError
            /\ lastError' = Classify(err, SinceStart)
            /\ lastCode' = err
            /\ IF shouldRetry(retryCount, Classify(err, SinceStart))
               THEN /\ retryCount' = retryCount + 1
                    /\ retryPc' = [retryPc EXCEPT ![i] = "armed"]
               ELSE UNCHANGED <<retryCount, retryPc>>
    /\ alive' = alive \ {i}
    /\ UNCHANGED <<isRunning, startTime, cmd, stopChan, launched, connected,
                   startCalls, startRet, hlsPanicked, hNow, launchedAt,
                   stopCalls, files>>
    /\ UNCHANGED exceptHls

\* monitor's deferred function
MonitorDefer(i) ==
    /\ ~hlsPanicked
    /\ monPc[i] = "return"
    /\ monPc' = [monPc EXCEPT ![i] = "done"]
    /\ isRunning' = FALSE
    /\ status' = IF status # StatusError THEN StatusStopped ELSE status
    /\ UNCHANGED <<lastError, startTime, retryCount, cmd, stopChan, launched,
                   connected, retryPc, startCalls, startRet, hlsPanicked,
                   hNow, launchedAt, lastCode, stopCalls, alive, files>>
    /\ UNCHANGED exceptHls

\* the retry delay of the timer scheduleRetry started for handle i is over:
\* it gives up on a transcoder that is not running, and otherwise restarts
\* ffmpeg (restartFFmpeg), which the host lets succeed or fail
RetryFire(i, launch) ==
    /\ ~hlsPanicked
    /\ retryPc[i] = "armed"
    /\ UNCHANGED <<isRunning, startTime, retryCount, stopChan, connected,
                   startCalls, startRet, hlsPanicked, hNow, stopCalls>>
    /\ IF ~isRunning
       THEN /\ launch = "ok"
            /\ retryPc' = [retryPc EXCEPT ![i] = "abandoned"]
            /\ UNCHANGED <<status, lastError, lastCode, cmd, launched, monPc,
                           launchedAt, alive, files>>
       ELSE /\ launched + 1 \in DOMAIN monPc
            /\ launched' = launched + 1
            /\ cmd' = launched + 1
            /\ files' = FALSE
            /\ IF launch = "ok"
               THEN /\ status' = StatusConnecting
                    /\ lastError' = NoStreamError
                    /\ lastCode' = NilError
                    /\ monPc' = [monPc EXCEPT ![launched + 1] = "wait"]
                    /\ launchedAt' =
                         [launchedAt EXCEPT ![launched + 1] = hNow]
                    /\ retryPc' = [retryPc EXCEPT ![i] = "restarted"]
                    /\ alive' = alive \cup {launched + 1}
               ELSE /\ status' = StatusError
                    /\ lastError' = ErrorTypeFFmpegFailed
                    /\ lastCode' = LaunchError
                    /\ retryPc' = [retryPc EXCEPT ![i] = "failed"]
                    /\ UNCHANGED <<monPc, launchedAt, alive>>
    /\ UNCHANGED exceptHls

\* the timer's select takes <-h.stopChan
RetryStopped(i) ==
    /\ ~hlsPanicked
    /\ retryPc[i] = "armed"
    /\ stopChan = "closed"
    /\ retryPc' = [retryPc EXCEPT ![i] = "stopped"]
    /\ UNCHANGED <<isRunning, status, lastError, startTime, retryCount, cmd,
                   stopChan, launched, monPc, connected, startCalls, startRet,
                   hlsPanicked, hNow, launchedAt, lastCode, stopCalls, alive,
                   files>>
    /\ UNCHANGED exceptHls

NextHls ==
    \/ \E launch \in {"ok", "mkdir", "exec"} : Start(launch)
    \/ isRunning /\ Stop
    \/ \E i \in Handles : MarkStreaming(i)
    \/ \E i \in Handles : MonitorStopped(i)
    \/ \E i \in Handles, err \in ExitErrors : MonitorDone(i, err)
    \/ \E i \in Handles : MonitorDefer(i)
    \/ \E i \in Handles, launch \in {"ok", "exec"} : RetryFire(i, launch)
    \/ \E i \in Handles : RetryStopped(i)

SpecHls == InitHls /\ [][NextHls]_vars

\* the fields of the transcoder a caller can see
Observed == <<isRunning, status, lastError, startTime, retryCount, cmd>>

\* C19: a Start on a running transcoder returns an error and changes none
\* of status, last error, start time, retry counter, process handle; a Start
\* on one that is not running leaves it running with status Connecting,
\* retry counter 0 and no last error when the process was launched, and not
\* running with status Error and last-error type ffmpeg_failed when not.
C19_StartOutcomes ==
    [][startCalls' = startCalls + 1 =>
        IF isRunning
        THEN startRet' = "already" /\ UNCHANGED Observed
        ELSE IF startRet' = "ok"
        THEN /\ isRunning' /\ monPc'[cmd'] = "wait"
             /\ status' = StatusConnecting
             /\ retryCount' = 0
             /\ lastError' = NoStreamError
        ELSE /\ startRet' = "failed"
             /\ ~isRunning'
             /\ status' = StatusError
             /\ lastError' = ErrorTypeFFmpegFailed]_vars

\* C19 witness: after an earlier process failed and a retry was counted, a
\* second Start launched a new process
C19_Witness ==
    /\ startCalls = 2 /\ startRet = "ok" /\ startTime = 2
    /\ \E i \in Handles : retryPc[i] # "none"
    /\ isRunning /\ status = StatusConnecting /\ retryCount = 0

\* C20: a retry that was scheduled after an exit with a connection-refused
\* error restarts the process once its delay is over, unless the transcoder
\* was stopped; the retry counter never passes the maximum of 5.
C20_RefusedExitIsRetried ==
    /\ retryCount <= maxRetries
    /\ \A i \in Handles : retryPc[i] = "abandoned" => stopChan = "closed"

(***************************************************************************)
(* One transcoder followed through all of its retries                      *)
(***************************************************************************)
InitRetry ==
    /\ MergeIdle /\ StoreIdle /\ ConnIdle /\ CastIdle /\ LiveIdle
    /\ WatchIdle
    /\ SensorIdle /\ AppIdle /\ MgrIdle
    /\ HlsIdleOver(ChainHandles)

NextRetry ==
    \/ \E launch \in {"ok", "mkdir", "exec"} : Start(launch)
    \/ \E i \in ChainHandles, err \in ExitErrors : MonitorDone(i, err)
    \/ \E i \in ChainHandles : MonitorDefer(i)
    \/ \E i \in ChainHandles, launch \in {"ok", "exec"} : RetryFire(i, launch)

SpecRetry == InitRetry /\ [][NextRetry]_vars

\* scheduleRetry runs for handle i in this step
Schedules(i) == retryPc[i] = "none" /\ retryPc'[i] = "armed"

\* no monitor is at work and no retry is waiting for its delay
Settled ==
    /\ startCalls > 0
    /\ \A i \in DOMAIN monPc : monPc[i] \notin {"wait", "return"}
    /\ \A i \in DOMAIN retryPc : retryPc[i] # "armed"

\* a step the transcoder takes by itself
Automatic ==
    \/ \E i \in DOMAIN monPc : MonitorStopped(i) \/ MonitorDefer(i)
    \/ \E i \in DOMAIN monPc, err \in ExitErrors : MonitorDone(i, err)
    \/ \E i \in DOMAIN monPc, launch \in {"ok", "exec"} : RetryFire(i, launch)
    \/ \E i \in DOMAIN monPc : RetryStopped(i)

\* a retry is scheduled only at a process exit, for a retryable last-error
\* type and a counter below the maximum, and counts one retry
ScheduledOnlyWhenRetryable ==
    [][\A i \in DOMAIN retryPc :
        Schedules(i) =>
            /\ monPc[i] = "wait" /\ monPc'[i] = "return"
            /\ status' = StatusError
            /\ lastError' \in Retryable
            /\ retryCount < maxRetries
            /\ retryCount' = retryCount + 1]_vars

\* with no retry waiting and every monitor finished the transcoder is not
\* running, in Error or Stopped, and takes no step by itself
StaysDown ==
    Settled =>
        /\ ~isRunning
        /\ status \in {StatusError, StatusStopped}
        /\ ~ENABLED Automatic

RetryCountBounded == retryCount <= maxRetries

ClockTick ==
    /\ ~hlsPanicked
    /\ hNow < MaxClock
    /\ hNow' = hNow + 1
    /\ UNCHANGED <<isRunning, status, lastError, startTime, retryCount, cmd,
                   stopChan, launched, monPc, connected, retryPc, startCalls,
                   startRet, hlsPanicked, launchedAt, lastCode, stopCalls,
                   alive, files>>
    /\ UNCHANGED exceptHls

\* time.After(h.retryDelay) of the retry scheduled at the exit of process i
\* cannot be over before the delay has passed since the launch of i
DelayOver(i) == (hNow - launchedAt[i]) * SecondsPerTick >= retryDelay

NextClassify ==
    \/ ClockTick
    \/ \E launch \in {"ok"} : Start(launch)
    \/ \E i \in Handles, err \in SampleTexts : MonitorDone(i, err)
    \/ \E i \in Handles : MonitorDefer(i)
    \/ \E i \in Handles, launch \in {"ok"} : DelayOver(i) /\ RetryFire(i, launch)

SpecClassify == InitHls /\ [][NextClassify]_vars

\* the seconds the process of handle i has run
Ran(i) == (hNow - launchedAt[i]) * SecondsPerTick

\* the error type by the first match, in the order of the claim
FirstMatch(t, ran) ==
    CASE t \cap {"Connection refused", "Connection reset",
                 "No route to host"} # {}
           -> ErrorTypeRTMPConnection
      [] /\ t \cap {"Connection refused", "Connection reset",
                    "No route to host"} = {}
         /\ t \cap {"Connection timed out", "timeout"} # {}
           -> ErrorTypeRTMPTimeout
      [] /\ t \cap {"Connection refused", "Connection reset",
                    "No route to host", "Connection timed out",
                    "timeout"} = {}
         /\ t \cap {"Server error", "403", "404"} # {}
           -> ErrorTypeRTMPConnection
      [] t \cap (Phrases \ {"exit status"}) = {} /\ "exit status" \in t
           -> IF ran < 10 THEN ErrorTypeRTMPConnection
                          ELSE ErrorTypeNetworkError
      [] t \cap Phrases = {}
           -> ErrorTypeUnknown

ClassifiedSinceStart ==
    [][\A i \in DOMAIN monPc :
        (monPc[i] = "wait" /\ monPc'[i] = "return") =>
            /\ status' = StatusError
            /\ lastCode' \in SampleTexts
            /\ lastError' = FirstMatch(lastCode', SinceStart)]_vars

(***************************************************************************)
(* Stop on one transcoder, started at most once as HLSManager does         *)
(***************************************************************************)
NextStop ==
    \/ \E launch \in {"ok", "mkdir", "exec"} : startCalls = 0 /\ Start(launch)
    \/ Stop
    \/ \E i \in Handles : MarkStreaming(i)
    \/ \E i \in Handles : MonitorStopped(i)
    \/ \E i \in Handles, err \in ExitErrors : MonitorDone(i, err)
    \/ \E i \in Handles : MonitorDefer(i)
    \/ \E i \in Handles, launch \in {"ok", "exec"} : RetryFire(i, launch)
    \/ \E i \in Handles : RetryStopped(i)

SpecStop == InitHls /\ [][NextStop]_vars

\* everything of the transcoder but the count of the Stop calls
BesidesStopCalls ==
    <<isRunning, status, lastError, startTime, retryCount, cmd, stopChan,
      launched, monPc, connected, retryPc, startCalls, startRet, hlsPanicked,
      hNow, launchedAt, lastCode, alive, files>>

InitMgr ==
    /\ MergeIdle /\ StoreIdle /\ ConnIdle /\ CastIdle /\ LiveIdle
    /\ WatchIdle
    /\ SensorIdle /\ AppIdle /\ MgrIdle
    /\ HlsIdle

exceptMgr ==
    <<mergeVars, storeVars, connVars, castVars, liveVars, hlsVars, appVars,
      sensorVars, watchVars>>

\* a replaced transcoder that is left as it is
KeepExisting(running, uid) == running

\* existing.Stop() for the registry entry of uid, where there is one
StopExisting(running, uid) ==
    [t \in DOMAIN running |->
        IF t = transcoders[uid] THEN FALSE ELSE running[t]]

\* StartTranscoding(uid): Stop of the existing transcoder, a new transcoder,
\* its Start; the entry is replaced when Start succeeded
StartTranscodingCall(uid, launched_ok) ==
    /\ created < MaxTranscoders
    /\ created' = created + 1
    /\ tUID' = [tUID EXCEPT ![created + 1] = uid]
    /\ tRunning' =
         [StopExisting(tRunning, uid) EXCEPT ![created + 1] = launched_ok]
    /\ transcoders' =
         IF launched_ok
         THEN [transcoders EXCEPT ![uid] = created + 1]
         ELSE transcoders
    /\ UNCHANGED <<stopCleanup, mgrPanicked>>

StartTranscoding(uid, launched_ok) ==
    /\ StartTranscodingCall(uid, launched_ok)
    /\ UNCHANGED exceptMgr

\* StopTranscoding(uid): the entry, where there is one, is stopped and
\* deleted
StopTranscodingCall(uid) ==
    /\ tRunning' = StopExisting(tRunning, uid)
    /\ transcoders' = [transcoders EXCEPT ![uid] = 0]
    /\ UNCHANGED <<created, tUID, stopCleanup, mgrPanicked>>

StopTranscoding(uid) ==
    /\ transcoders[uid] # 0
    /\ StopTranscodingCall(uid)
    /\ UNCHANGED exceptMgr

\* StopAll: the cleanup ticker is stopped and its stop channel closed, which
\* panics when the channel is closed already, before any transcoder is
\* stopped
StopAll ==
    /\ IF stopCleanup = "closed"
       THEN /\ mgrPanicked' = TRUE
            /\ UNCHANGED <<transcoders, tRunning, stopCleanup>>
       ELSE /\ stopCleanup' = "closed"
            /\ tRunning' =
                 [t \in DOMAIN tRunning |->
                     IF \E u \in UIDs : transcoders[u] = t
                     THEN FALSE ELSE tRunning[t]]
            /\ transcoders' = [u \in UIDs |-> 0]
            /\ UNCHANGED mgrPanicked
    /\ UNCHANGED <<created, tUID>>
    /\ UNCHANGED exceptMgr

\* the process of transcoder t is over and its monitor clears isRunning
TranscoderEnds(t) ==
    /\ tRunning[t]
    /\ tRunning' = [tRunning EXCEPT ![t] = FALSE]
    /\ UNCHANGED <<transcoders, created, tUID, stopCleanup, mgrPanicked>>
    /\ UNCHANGED exceptMgr

NextMgr ==
    \/ \E uid \in UIDs, ok \in BOOLEAN : StartTranscoding(uid, ok)
    \/ \E uid \in UIDs : StopTranscoding(uid)
    \/ StopAll
    \/ \E t \in 1..MaxTranscoders : TranscoderEnds(t)

SpecMgr == InitMgr /\ [][NextMgr]_vars

\* the transcoders of uid that are running
RunningFor(uid) == {t \in 1..created : tUID[t] = uid /\ tRunning[t]}

AtMostOneRunning == \A uid \in UIDs : Cardinality(RunningFor(uid)) <= 1

\* a StartTranscoding leaves the transcoder it found in the registry not
\* running, and enters the new one when its Start succeeded
StartReplaces ==
    [][created' = created + 1 =>
        LET new == created'
            uid == tUID'[new]
            old == transcoders[uid]
        IN  /\ old # 0 => ~tRunning'[old]
            /\ tRunning'[new] => transcoders'[uid] = new]_vars

\* C24: at most one transcoder per UID is running after any calls of
\* StartTranscoding, StopTranscoding and StopAll; a StartTranscoding for a
\* UID that has a transcoder stops it, and after a successful one the
\* registry entry of the UID is the new transcoder.
C24_OneTranscoderPerUID == []AtMostOneRunning /\ StartReplaces

\* C24 witness: a running transcoder was replaced by a new one for its UID
C24_Witness ==
    \E uid \in UIDs : \E old \in 1..created :
        /\ tUID[old] = uid /\ old # transcoders[uid]
        /\ transcoders[uid] # 0 /\ tRunning[transcoders[uid]]
        /\ ~tRunning[old]

\* the handlers invoked so far for the frame being dispatched are the first
\* ones of the copy, in order, none before handleResponse has returned, and
\* all of the copy once handleMessage has returned
FanOutOfCopy ==
    /\ rPc \in {"lookup", "delete", "select", "sendchan", "fanout"}
        => hLog = << >>
    /\ rPc = "invoke"
        => /\ Len(hLog) <= Len(subscribedHandlers)
           /\ hLog = SubSeq(subscribedHandlers, 1, Len(hLog))
    /\ (rPc = "idle" /\ rFrame # NoFrame) => hLog = subscribedHandlers
    /\ Len(subscribedHandlers) <= Len(msgHandlers)
    /\ subscribedHandlers = SubSeq(msgHandlers, 1, Len(subscribedHandlers))

\* C11: every received frame reaches every handler registered when it is
\* dispatched, exactly once, after the pending request was resolved, and no
\* handler registered during the dispatch: the fan-out follows the copy, and
\* handleMessage is never cut short while registered handlers have not seen
\* the frame.
C11_DeliveredToEveryHandler ==
    /\ FanOutOfCopy
    /\ panicked => hLog = msgHandlers

(***************************************************************************)
(* The App: the connection handler of the watched device (handleBaby,      *)
(* runWebsocket), the runs of requestLocalStreaming it starts, and the     *)
(* retry monitor                                                           *)
(***************************************************************************)
exceptApp ==
    <<mergeVars, stateMutex, stack, spawned, connVars, castVars, liveVars,
      hlsVars, sensorVars, watchVars>>

InitApp ==
    /\ MergeIdle /\ StoreIdle /\ ConnIdle /\ CastIdle /\ LiveIdle
    /\ WatchIdle
    /\ SensorIdle /\ MgrIdle
    /\ HlsIdle
    /\ \E auto \in BOOLEAN : AppIdleWith(auto)

\* the record of the watched device, as GetBabyState returns it
Baby == babiesByUID[WatchedUID]

NewTask(caller, streamingStatus, at, change) ==
    [NoTask EXCEPT !.origin = caller, !.status = streamingStatus, !.pc = at,
                   !.change = change]

\* the runs after "go" of the runs in new
Spawned(new) ==
    [t \in 1..MaxTasks |->
        IF t > nTasks /\ t <= nTasks + Len(new) THEN new[t - nTasks]
        ELSE tasks[t]]

Spawn(new) ==
    /\ nTasks + Len(new) <= MaxTasks
    /\ tasks' = Spawned(new)
    /\ nTasks' = nTasks + Len(new)

\* the updates that reach the store from the device's connection and from
\* the RTMP server
DevicePatches(uid) ==
    IF uid = WatchedUID
    THEN {UnhealthyPatch, AlivePatch,
          WebsocketAlivePatch(TRUE), WebsocketAlivePatch(FALSE)}
    ELSE {UnhealthyPatch}

\* the watcher's test that prevents a request after a rejection
ReadAllowsAlways(st) == TRUE

ReadAllows(st) ==
    GetStreamRequestState(st) # StreamRequestState_RequestFailed

\* Update(uid, patch) by the connection or the RTMP server: the merge, and
\* for a change the callback of runWebsocket, which returns at once unless
\* the watched device turned unhealthy
DeviceUpdate(uid, patch) ==
    /\ changes < MaxChanges
    /\ changes' = changes + 1
    /\ babiesByUID' = Updated(uid, patch)
    /\ LET fires == /\ subscribed
                    /\ Merge(babiesByUID[uid], patch).changed
                    /\ WatcherTriggers(uid, patch)
       IN  /\ triggered' =
                IF fires THEN triggered \cup {changes + 1} ELSE triggered
           /\ watchPending' =
                IF fires THEN watchPending \cup {changes + 1}
                ELSE watchPending
    /\ UNCHANGED <<autoStart, wsPc, connections, subscribed, ctxDone, tasks,
                   nTasks, retryMon, monTicks, hlsPending>>
    /\ UNCHANGED mgrVars
    /\ UNCHANGED exceptApp

\* the callback of runWebsocket for change c reads the store and starts
\* initializeLocalStreaming unless the last request was rejected
LivenessCallback(c) ==
    /\ c \in watchPending
    /\ watchPending' = watchPending \ {c}
    /\ IF ReadAllows(Baby)
       THEN Spawn(<< NewTask("watcher", "STARTED", "send", c) >>)
       ELSE UNCHANGED <<tasks, nTasks>>
    /\ UNCHANGED <<autoStart, wsPc, connections, subscribed, ctxDone,
                   changes, triggered, retryMon, monTicks, hlsPending>>
    /\ UNCHANGED <<babiesByUID, mgrVars>>
    /\ UNCHANGED exceptApp

\* the handler given to WithReadyConnection, up to the wait of runWebsocket
\* for the end of its context
ReadyConnection ==
    /\ wsPc = "idle"
    /\ wsPc' = "run"
    /\ connections' = connections \cup {WatchedUID}
    /\ subscribed' = TRUE
    /\ retryMon' = IF autoStart THEN "on" ELSE retryMon
    /\ LET auto == IF autoStart
                   THEN << NewTask("autostart", "STARTED", "send", 0) >>
                   ELSE << >>
           init == IF /\ GetStreamState(Baby) # StreamState_Alive
                      /\ \/ GetStreamRequestState(Baby)
                                # StreamRequestState_Requested
                         \/ GetStreamState(Baby) = StreamState_Unhealthy
                   THEN << NewTask("init", "STARTED", "send", 0) >>
                   ELSE << >>
       IN  Spawn(auto \o init)
    /\ UNCHANGED <<autoStart, ctxDone, changes, triggered, watchPending,
                   monTicks, hlsPending>>
    /\ UNCHANGED <<babiesByUID, mgrVars>>
    /\ UNCHANGED exceptApp

\* the context of the handler is cancelled
CtxCancel ==
    /\ wsPc = "run"
    /\ ~ctxDone
    /\ ctxDone' = TRUE
    /\ UNCHANGED <<autoStart, wsPc, connections, subscribed, changes,
                   triggered, watchPending, tasks, nTasks, retryMon, monTicks,
                   hlsPending>>
    /\ UNCHANGED <<babiesByUID, mgrVars>>
    /\ UNCHANGED exceptApp

\* cleanup of runWebsocket: unsubscribe, and a STOPPED request when the
\* websocket and the stream are alive, for whose end the handler waits
Cleanup ==
    /\ wsPc = "run"
    /\ ctxDone
    /\ subscribed' = FALSE
    /\ IF GetIsWebsocketAlive(Baby) /\ GetStreamState(Baby) = StreamState_Alive
       THEN /\ Spawn(<< NewTask("cleanup", "STOPPED", "send", 0) >>)
            /\ wsPc' = "stopping"
       ELSE /\ wsPc' = "defer"
            /\ UNCHANGED <<tasks, nTasks>>
    /\ UNCHANGED <<autoStart, connections, ctxDone, changes, triggered,
                   watchPending, retryMon, monTicks, hlsPending>>
    /\ UNCHANGED <<babiesByUID, mgrVars>>
    /\ UNCHANGED exceptApp

\* runWebsocket has returned
Returned ==
    \/ wsPc = "defer"
    \/ /\ wsPc = "stopping"
       /\ \E t \in 1..nTasks :
            tasks[t].origin = "cleanup" /\ tasks[t].pc = "done"

\* the deferred function of the handler: unregisterConnection, and with
\* AutoStart autoStopStreaming (the STOPPED request in a goroutine of its
\* own, StopTranscoding, the update to Unhealthy)
HandlerDefer ==
    /\ Returned
    /\ wsPc' = "ended"
    /\ connections' = connections \ {WatchedUID}
    /\ IF autoStart
       THEN /\ Spawn(<< NewTask("autostop", "STOPPED", "send", 0) >>)
            /\ StopTranscodingCall(WatchedUID)
            /\ babiesByUID' = Updated(WatchedUID, UnhealthyPatch)
       ELSE UNCHANGED <<tasks, nTasks, mgrVars, babiesByUID>>
    /\ UNCHANGED <<autoStart, subscribed, ctxDone, changes, triggered,
                   watchPending, retryMon, monTicks, hlsPending>>
    /\ UNCHANGED exceptApp

\* retryStreaming: the failed state is reset before the request
RetryReset(t) ==
    /\ t \in 1..nTasks
    /\ tasks[t].pc = "reset"
    /\ babiesByUID' =
         Updated(WatchedUID,
                 RequestStatePatch(StreamRequestState_NotRequested))
    /\ tasks' = [tasks EXCEPT ![t].pc = "send"]
    /\ UNCHANGED <<autoStart, wsPc, connections, subscribed, ctxDone,
                   changes, triggered, watchPending, nTasks, retryMon, monTicks,
                   hlsPending>>
    /\ UNCHANGED mgrVars
    /\ UNCHANGED exceptApp

\* requestLocalStreaming: SendRequest(PUT_STREAMING)
SendStreaming(t) ==
    /\ t \in 1..nTasks
    /\ tasks[t].pc = "send"
    /\ tasks' = [tasks EXCEPT
                    ![t].pc = "await",
                    ![t].sent = @ + 1,
                    ![t].sentFailed =
                        \/ @
                        \/ /\ tasks[t].status = "STARTED"
                           /\ GetStreamRequestState(Baby)
                                = StreamRequestState_RequestFailed]
    /\ UNCHANGED <<autoStart, wsPc, connections, subscribed, ctxDone,
                   changes, triggered, watchPending, nTasks, retryMon, monTicks,
                   hlsPending>>
    /\ UNCHANGED <<babiesByUID, mgrVars>>
    /\ UNCHANGED exceptApp

\* what awaitResponse(30 s) returns: a response, the rejection for the
\* connection limit, another error, the timeout; a panic of the request on
\* a dead connection is recovered in autoStopStreaming only
Outcomes(t) ==
    {"ok", "limit", "failed", "timeout"}
        \cup (IF tasks[t].origin = "autostop" THEN {"panic"} ELSE {})

\* requestLocalStreaming after a timeout
AfterTimeoutAlways(isAlive) == "send"

AfterTimeout(isAlive) == IF isAlive THEN "send" ELSE "done"

\* the update requestLocalStreaming makes for the outcome, if any
OutcomePatch(outcome) ==
    CASE outcome = "ok" ->
            RequestStatePatch(StreamRequestState_Requested)
      [] outcome = "limit" ->
            RequestStatePatch(StreamRequestState_RequestFailed)
      [] outcome = "failed" ->
            IF GetStreamState(Baby) = StreamState_Alive THEN EmptyPatch
            ELSE RequestStatePatch(StreamRequestState_RequestFailed)
      [] OTHER -> EmptyPatch

\* autoStartStreaming and retryStreaming after requestLocalStreaming has
\* returned: StartTranscoding in a goroutine of its own, in retryStreaming
\* only when the device has no running transcoder
StartsTranscoding(t) ==
    \/ tasks[t].origin = "autostart"
    \/ /\ tasks[t].origin = "retry"
       /\ \/ transcoders[WatchedUID] = 0
          \/ ~tRunning[transcoders[WatchedUID]]

\* requestLocalStreaming: awaitResponse returns and the loop goes on or ends
AwaitStreaming(t, outcome) ==
    /\ t \in 1..nTasks
    /\ tasks[t].pc = "await"
    /\ outcome \in Outcomes(t)
    /\ outcome = "timeout" => tasks[t].timeouts < MaxTimeouts
    /\ babiesByUID' = Updated(WatchedUID, OutcomePatch(outcome))
    /\ LET next == IF outcome = "timeout"
                   THEN AfterTimeout(GetIsWebsocketAlive(Baby))
                   ELSE "done"
       IN  /\ tasks' = [tasks EXCEPT
                          ![t].pc = next,
                          ![t].outcome = outcome,
                          ![t].timeouts =
                              IF outcome = "timeout" THEN @ + 1 ELSE @]
           /\ hlsPending' =
                IF next = "done" /\ StartsTranscoding(t)
                THEN hlsPending + 1 ELSE hlsPending
    /\ UNCHANGED <<autoStart, wsPc, connections, subscribed, ctxDone,
                   changes, triggered, watchPending, nTasks, retryMon,
                   monTicks>>
    /\ UNCHANGED mgrVars
    /\ UNCHANGED exceptApp

\* the goroutine of autoStartStreaming or retryStreaming that calls
\* StartTranscoding after its sleep
DelayedStartTranscoding(launched_ok) ==
    /\ hlsPending > 0
    /\ hlsPending' = hlsPending - 1
    /\ StartTranscodingCall(WatchedUID, launched_ok)
    /\ UNCHANGED <<autoStart, wsPc, connections, subscribed, ctxDone,
                   changes, triggered, watchPending, tasks, nTasks, retryMon,
                   monTicks>>
    /\ UNCHANGED babiesByUID
    /\ UNCHANGED exceptApp

shouldRetryStreaming ==
    /\ autoStart
    /\ GetIsWebsocketAlive(Baby)
    /\ GetStreamRequestState(Baby) = StreamRequestState_RequestFailed
    /\ GetStreamState(Baby) # StreamState_Alive

\* a tick that starts a retry whatever the state
RetriesAlways == WatchedUID \in connections

\* the test of the retry monitor at a tick
Retries == shouldRetryStreaming /\ WatchedUID \in connections

\* startStreamingRetryMonitor: the ticker fires
RetryMonitorTick ==
    /\ retryMon = "on"
    /\ monTicks < MaxMonitorTicks
    /\ monTicks' = monTicks + 1
    /\ IF Retries
       THEN Spawn(<< NewTask("retry", "STARTED", "reset", 0) >>)
       ELSE UNCHANGED <<tasks, nTasks>>
    /\ UNCHANGED <<autoStart, wsPc, connections, subscribed, ctxDone,
                   changes, triggered, watchPending, retryMon, hlsPending>>
    /\ UNCHANGED <<babiesByUID, mgrVars>>
    /\ UNCHANGED exceptApp

\* startStreamingRetryMonitor: the context is done
RetryMonitorStop ==
    /\ retryMon = "on"
    /\ ctxDone
    /\ retryMon' = "stopped"
    /\ UNCHANGED <<autoStart, wsPc, connections, subscribed, ctxDone,
                   changes, triggered, watchPending, tasks, nTasks, monTicks,
                   hlsPending>>
    /\ UNCHANGED <<babiesByUID, mgrVars>>
    /\ UNCHANGED exceptApp

\* the handler while its connection lives, and the requests it starts
NextWatch ==
    \/ \E uid \in UIDs : \E patch \in DevicePatches(uid) :
        DeviceUpdate(uid, patch)
    \/ \E c \in 1..MaxChanges : LivenessCallback(c)
    \/ ReadyConnection
    \/ \E t \in 1..MaxTasks : SendStreaming(t)
    \/ \E t \in 1..MaxTasks :
        \E outcome \in {"ok", "limit", "failed", "timeout"} :
            AwaitStreaming(t, outcome)

\* a deployment without AutoStart: the requests are those of runWebsocket
InitWatch ==
    /\ MergeIdle /\ StoreIdle /\ ConnIdle /\ CastIdle /\ LiveIdle
    /\ WatchIdle
    /\ SensorIdle /\ MgrIdle
    /\ HlsIdle
    /\ AppIdleWith(FALSE)

SpecWatch == InitWatch /\ [][NextWatch]_vars

\* the start of the handler with and without AutoStart
NextStartup ==
    \/ \E patch \in DevicePatches(WatchedUID) :
        DeviceUpdate(WatchedUID, patch)
    \/ ReadyConnection
    \/ \E t \in 1..MaxTasks : SendStreaming(t)
    \/ \E t \in 1..MaxTasks :
        \E outcome \in {"ok", "limit", "failed", "timeout"} :
            AwaitStreaming(t, outcome)

SpecStartup == InitApp /\ [][NextStartup]_vars

\* the runs of requestLocalStreaming started for change c
RunsFor(c) ==
    {t \in 1..nTasks : tasks[t].origin = "watcher" /\ tasks[t].change = c}

\* the changes that call for a request are those that set the liveness of
\* the watched device to Unhealthy while the handler is subscribed
OnlyUnhealthyChangesTrigger ==
    [][changes' = changes + 1 =>
        /\ changes' \in triggered' <=>
            /\ subscribed
            /\ GetStreamState(Baby) # StreamState_Unhealthy
            /\ GetStreamState(babiesByUID'[WatchedUID])
                    = StreamState_Unhealthy
        /\ nTasks' = nTasks]_vars

\* the callback for a change starts no run when it reads RequestFailed and
\* one run for a STARTED request otherwise
CallbackDecides ==
    [][\A c \in 1..MaxChanges :
        (c \in watchPending /\ c \notin watchPending') =>
            IF GetStreamRequestState(Baby) = StreamRequestState_RequestFailed
            THEN nTasks' = nTasks
            ELSE /\ nTasks' = nTasks + 1
                 /\ tasks'[nTasks'] = NewTask("watcher", "STARTED", "send", c)
      ]_vars

\* no run but for a change that called for one, and one run at most for it
RunsOnlyForTriggers ==
    \A c \in 1..MaxChanges :
        /\ Cardinality(RunsFor(c)) <= 1
        /\ c \notin triggered \/ c \in watchPending => RunsFor(c) = {}

\* a run has sent one request when it waits or is over
SentOnce ==
    \A t \in 1..nTasks :
        tasks[t].origin = "watcher" =>
            /\ tasks[t].sent <= 1
            /\ tasks[t].pc \in {"await", "done"} => tasks[t].sent = 1

\* a run has sent one request, and one more after each timeout but the one
\* it ended at
SentOncePerAttempt ==
    \A t \in 1..nTasks :
        tasks[t].origin = "watcher" =>
            /\ tasks[t].pc = "send" => tasks[t].sent = tasks[t].timeouts
            /\ tasks[t].pc = "await" => tasks[t].sent = tasks[t].timeouts + 1
            /\ tasks[t].pc = "done" =>
                    tasks[t].sent =
                        IF tasks[t].outcome = "timeout" THEN tasks[t].timeouts
                        ELSE tasks[t].timeouts + 1

C28_RejectedLeftToRetryMonitor ==
    \A t \in 1..nTasks :
        /\ tasks[t].outcome = "limit" => tasks[t].pc = "done"
        /\ tasks[t].sentFailed => tasks[t].origin = "retry"

\* a step of run t in which awaitResponse returns
Answered(t) == tasks[t].pc = "await" /\ tasks'[t].pc # "await"

\* C29: after a timeout requestLocalStreaming leaves the Stream Request
\* State alone, sends again when the websocket is alive and returns when it
\* is not; after any other answer it returns.
C29_TimeoutRetriesWhileAlive ==
    [][\A t \in 1..MaxTasks :
        Answered(t) =>
            IF tasks'[t].outcome = "timeout"
            THEN /\ babiesByUID' = babiesByUID
                 /\ tasks'[t].pc =
                        IF GetIsWebsocketAlive(Baby) THEN "send" ELSE "done"
            ELSE tasks'[t].pc = "done"]_vars

\* C29 witness: a run has sent again after a timeout and ended with the
\* response, another one has ended at a timeout with the websocket not alive
C29_Witness ==
    \E t \in 1..nTasks, u \in 1..nTasks :
        /\ tasks[t].pc = "done" /\ tasks[t].outcome = "ok"
        /\ tasks[t].timeouts = 1 /\ tasks[t].sent = 2
        /\ tasks[u].pc = "done" /\ tasks[u].outcome = "timeout"
        /\ tasks[u].status = "STARTED"

\* the handler to its end, with the transcoders started for the device
NextTeardown ==
    \/ \E patch \in {AlivePatch, WebsocketAlivePatch(TRUE)} :
        DeviceUpdate(WatchedUID, patch)
    \/ ReadyConnection
    \/ StartTranscoding(WatchedUID, TRUE)
    \/ DelayedStartTranscoding(TRUE)
    \/ CtxCancel
    \/ Cleanup
    \/ HandlerDefer
    \/ \E t \in 1..MaxTasks : SendStreaming(t)
    \/ \E t \in 1..MaxTasks :
        \E outcome \in {"ok", "panic"} : AwaitStreaming(t, outcome)

SpecTeardown == InitApp /\ [][NextTeardown]_vars

\* a step in which the handler of the connection ends
HandlerEnds == wsPc # "ended" /\ wsPc' = "ended"

\* C26: when the websocket handler of a device ends, the connection is
\* unregistered, a STOPPED streaming request is attempted in a run of its
\* own, and the HLS transcoder of the device is stopped and removed from the
\* manager, whatever the configuration and the stream state.
C26_TeardownStopsTranscoder ==
    [][HandlerEnds =>
        /\ WatchedUID \notin connections'
        /\ nTasks' = nTasks + 1
        /\ tasks'[nTasks'] = NewTask("autostop", "STOPPED", "send", 0)
        /\ transcoders'[WatchedUID] = 0
        /\ \A t \in 1..created : tUID[t] = WatchedUID => ~tRunning'[t]]_vars

\* the retry monitor of the handler
NextMonitor ==
    \/ \E patch \in {AlivePatch, WebsocketAlivePatch(TRUE),
                     WebsocketAlivePatch(FALSE)} :
        DeviceUpdate(WatchedUID, patch)
    \/ ReadyConnection
    \/ CtxCancel
    \/ Cleanup
    \/ HandlerDefer
    \/ RetryMonitorTick
    \/ RetryMonitorStop
    \/ \E t \in 1..MaxTasks : RetryReset(t)
    \/ \E t \in 1..MaxTasks : SendStreaming(t)
    \/ \E t \in 1..MaxTasks :
        \E outcome \in {"ok", "limit"} : AwaitStreaming(t, outcome)

SpecMonitor == InitApp /\ [][NextMonitor]_vars

\* the select of the monitor takes the case of the context once it is done
FairSpecMonitor == SpecMonitor /\ WF_vars(RetryMonitorStop)

\* at a tick before the cancellation a retry is started when the websocket
\* is alive, the request has failed and the stream is not alive, and only
\* then
RetriesWhenFailed ==
    [][(monTicks' = monTicks + 1 /\ ~ctxDone) =>
        IF /\ GetIsWebsocketAlive(Baby)
           /\ GetStreamRequestState(Baby) = StreamRequestState_RequestFailed
           /\ GetStreamState(Baby) # StreamState_Alive
        THEN /\ nTasks' = nTasks + 1
             /\ tasks'[nTasks'] = NewTask("retry", "STARTED", "reset", 0)
        ELSE nTasks' = nTasks]_vars

\* the monitor ends for the cancellation only, and starts nothing afterwards
StopsOnCancel ==
    [][/\ (retryMon = "on" /\ retryMon' # "on") => ctxDone
       /\ retryMon = "stopped" => (retryMon' = "stopped" /\ monTicks' = monTicks)
      ]_vars

InitSensor ==
    /\ MergeIdle /\ StoreIdle /\ ConnIdle /\ CastIdle /\ LiveIdle /\ MgrIdle
    /\ WatchIdle
    /\ HlsIdle /\ AppIdle /\ SensorIdle

exceptSensor ==
    <<mergeVars, connVars, castVars, liveVars, hlsVars, mgrVars, appVars,
      watchVars>>

\* the SensorData lists of the PUT_SENSOR_DATA requests of the camera
TemperatureOnly == << [SensorType |-> "TEMPERATURE", ValueMilli |-> 21500] >>

HumidityOnly == << [SensorType |-> "HUMIDITY", ValueMilli |-> 45250] >>

SensorMessages ==
    {TemperatureOnly, HumidityOnly,
     << [SensorType |-> "NIGHT", ValueMilli |-> 1] >>,
     << [SensorType |-> "TEMPERATURE", ValueMilli |-> 20000],
        [SensorType |-> "HUMIDITY", ValueMilli |-> 40000],
        [SensorType |-> "NIGHT", ValueMilli |-> 0] >>}

\* the field a sensor type is stored in
SensorField(type) ==
    CASE type = "TEMPERATURE" -> "TemperatureMilli"
      [] type = "HUMIDITY" -> "HumidityMilli"
      [] type = "NIGHT" -> "IsNight"

\* an update in which the fields no sensor spoke of are zero, not nil
ZeroedSensorUpdate(sensorData) ==
    [sc |-> [f \in ScalarFields |->
                IF \E i \in DOMAIN sensorData :
                        SensorField(sensorData[i].SensorType) = f
                THEN LET last == CHOOSE i \in DOMAIN sensorData :
                            /\ SensorField(sensorData[i].SensorType) = f
                            /\ \A j \in DOMAIN sensorData :
                                SensorField(sensorData[j].SensorType) = f
                                    => j <= i
                     IN  sensorData[last].ValueMilli
                ELSE IF f \in {"TemperatureMilli", "HumidityMilli"} THEN 0
                ELSE Nil],
     di |-> NoInfo]

\* processSensorData: the update built from the list, the last set of a
\* type winning; every other field stays nil
SensorUpdate(sensorData) ==
    [sc |-> [f \in ScalarFields |->
                IF \E i \in DOMAIN sensorData :
                        SensorField(sensorData[i].SensorType) = f
                THEN LET last == CHOOSE i \in DOMAIN sensorData :
                            /\ SensorField(sensorData[i].SensorType) = f
                            /\ \A j \in DOMAIN sensorData :
                                SensorField(sensorData[j].SensorType) = f
                                    => j <= i
                     IN  sensorData[last].ValueMilli
                ELSE Nil],
     di |-> NoInfo]

\* float64(milli) / 1000, as units and thousandths
GetTemperature(st) ==
    IF st.sc["TemperatureMilli"] # Nil
    THEN [units |-> st.sc["TemperatureMilli"] \div 1000,
          thousandths |-> st.sc["TemperatureMilli"] % 1000]
    ELSE [units |-> 0, thousandths |-> 0]

GetHumidity(st) ==
    IF st.sc["HumidityMilli"] # Nil
    THEN [units |-> st.sc["HumidityMilli"] \div 1000,
          thousandths |-> st.sc["HumidityMilli"] % 1000]
    ELSE [units |-> 0, thousandths |-> 0]

\* a message handled alone, before the two that are handled together
EarlierSensorData(sensorData) ==
    /\ before = NewState
    /\ \A p \in Procs : received[p] = << >>
    /\ babiesByUID' = Updated(WatchedUID, SensorUpdate(sensorData))
    /\ before' = babiesByUID'[WatchedUID]
    /\ UNCHANGED <<stateMutex, stack, spawned, received>>
    /\ UNCHANGED exceptSensor

\* the message handler of runWebsocket gives the list of a PUT_SENSOR_DATA
\* request to processSensorData, which calls Update
ProcessSensorData(p, sensorData) ==
    /\ received[p] = << >>
    /\ ~InCall(p)
    /\ Len(sensorData) > 0
    /\ received' = [received EXCEPT ![p] = sensorData]
    /\ stack' = [stack EXCEPT
                    ![p] = << NewFrame(WatchedUID, SensorUpdate(sensorData)) >>]
    /\ UNCHANGED <<babiesByUID, stateMutex, spawned, before>>
    /\ UNCHANGED exceptSensor

NextSensor ==
    \/ \E sensorData \in SensorMessages : EarlierSensorData(sensorData)
    \/ \E p \in Procs, sensorData \in SensorMessages :
        ProcessSensorData(p, sensorData)
    \/ \E p \in Procs : UpdateLock(p)
    \/ \E p \in Procs : UpdateUnlock(p)
    \/ \E p \in Procs : Notify(p)
    \/ \E p \in Procs : UpdateReturn(p)

SpecSensor == InitSensor /\ [][NextSensor]_vars

\* the update of the message given to p has been merged into the store
Stored(p) ==
    /\ received[p] # << >>
    /\ InCall(p) => Top(p).pc # "lock"

\* the goroutines whose update has been merged
StoredBy == {p \in Procs : Stored(p)}

\* the record st with field f set to v
With(st, f, v) == [st EXCEPT !.sc[f] = v]

\* C30: a PUT_SENSOR_DATA message with only a temperature sets the stored
\* temperature to its milli-value (21500 reads back as 21.5) and leaves the
\* humidity and every other field as they were; one with only a humidity
\* does the same for the humidity; when the two are processed concurrently
\* the record holds both after both, in every interleaving.
C30_SensorFieldsKept ==
    \A p \in Procs : \A q \in Procs \ {p} :
        LET temp == TemperatureOnly[1].ValueMilli
            hum  == HumidityOnly[1].ValueMilli
        IN  /\ (received[p] = TemperatureOnly /\ StoredBy = {p}) =>
                /\ Baby = With(before, "TemperatureMilli", temp)
                /\ GetTemperature(Baby) = [units |-> 21, thousandths |-> 500]
                /\ GetHumidity(Baby) = GetHumidity(before)
            /\ (received[p] = HumidityOnly /\ StoredBy = {p}) =>
                /\ Baby = With(before, "HumidityMilli", hum)
                /\ GetTemperature(Baby) = GetTemperature(before)
            /\ (/\ received[p] = TemperatureOnly
                /\ received[q] = HumidityOnly
                /\ StoredBy = {p, q}) =>
                /\ Baby = With(With(before, "TemperatureMilli", temp),
                               "HumidityMilli", hum)
                /\ GetTemperature(Baby) = [units |-> 21, thousandths |-> 500]
                /\ GetHumidity(Baby) = [units |-> 45, thousandths |-> 250]

\* C30 witness: after an earlier message with other values, the humidity
\* message was merged first and the temperature message, given first, after
\* it; both calls have returned
C30_Witness ==
    /\ before # NewState
    /\ before.sc["TemperatureMilli"] = 20000
    /\ received[1] = TemperatureOnly /\ received[2] = HumidityOnly
    /\ ~InCall(1) /\ ~InCall(2)
    /\ Baby.sc["TemperatureMilli"] = 21500
    /\ Baby.sc["HumidityMilli"] = 45250
    /\ Baby.sc["IsNight"] = 0

(***************************************************************************)
(* The background tasks of a transcoder: the monitor, the playlist         *)
(* watcher, the task waiting for the process, the retry timer              *)
(***************************************************************************)
InitTasks ==
    /\ MergeIdle /\ StoreIdle /\ ConnIdle /\ CastIdle /\ LiveIdle
    /\ SensorIdle /\ AppIdle /\ MgrIdle /\ HlsIdle
    /\ WatchIdle

\* what the steps of a playlist watcher leave alone
exceptWatch ==
    <<mergeVars, storeVars, connVars, castVars, liveVars, mgrVars, appVars,
      sensorVars>>

\* the watcher of handle i takes a tick of checkTicker, which monitor has
\* not stopped yet, and hasHLSFiles finds the playlist the running process
\* wrote within the last 10 seconds; it goes on to take h.mutex
WatcherSees(i) ==
    /\ ~hlsPanicked
    /\ monPc[i] \in {"wait", "return"}
    /\ i \in alive
    /\ i \notin connected /\ i \notin seen
    /\ seen' = seen \cup {i}
    /\ files' = TRUE
    /\ UNCHANGED <<isRunning, status, lastError, startTime, retryCount, cmd,
                   stopChan, launched, monPc, connected, retryPc, startCalls,
                   startRet, hlsPanicked, hNow, launchedAt, lastCode,
                   stopCalls, alive>>
    /\ UNCHANGED exceptWatch

\* the watcher of handle i has h.mutex: status Streaming, connected, break
WatcherMarks(i) ==
    /\ ~hlsPanicked
    /\ i \in seen /\ i \notin connected
    /\ status' = StatusStreaming
    /\ connected' = connected \cup {i}
    /\ UNCHANGED <<isRunning, lastError, startTime, retryCount, cmd, stopChan,
                   launched, monPc, retryPc, startCalls, startRet,
                   hlsPanicked, hNow, launchedAt, lastCode, stopCalls,
                   alive, files>>
    /\ UNCHANGED seen
    /\ UNCHANGED exceptWatch

\* one transcoder, started once as HLSManager does
NextTasks ==
    \/ \E launch \in {"ok", "mkdir", "exec"} : startCalls = 0 /\ Start(launch)
    \/ Stop
    \/ \E i \in Handles : WatcherSees(i)
    \/ \E i \in Handles : WatcherMarks(i)
    \/ \E i \in Handles : MonitorStopped(i)
    \/ \E i \in Handles, err \in ExitErrors : MonitorDone(i, err)
    \/ \E i \in Handles : MonitorDefer(i)
    \/ \E i \in Handles, launch \in {"ok", "exec"} : RetryFire(i, launch)
    \/ \E i \in Handles : RetryStopped(i)

SpecTasks == InitTasks /\ [][NextTasks]_vars

\* the positions of the background tasks
taskPcs == <<monPc, retryPc, connected>>

\* every task that can take a step by itself takes it in the end: a select
\* with a ready case, a deferred function, a Lock of a free mutex
FairSpecTasks ==
    /\ SpecTasks
    /\ \A i \in Handles :
        /\ WF_taskPcs(MonitorStopped(i))
        /\ WF_taskPcs(MonitorDefer(i))
        /\ WF_taskPcs(WatcherMarks(i))
        /\ WF_taskPcs(RetryStopped(i))
        /\ WF_taskPcs(\E launch \in {"ok", "exec"} : RetryFire(i, launch))

\* monitor was started for handle i
Monitored(i) == monPc[i] # "none"

\* monitor of handle i has returned and its deferred function has run
MonitorEnded(i) == monPc[i] = "done"

\* the watcher of handle i has left its loop, which it does by the break
\* after it has set the status and by nothing else
WatcherEnded(i) == i \in connected

\* cmd.Wait of handle i has returned and its result is in the buffer of done
WaitEnded(i) == i \notin alive

\* no retry timer of handle i is waiting
RetryEnded(i) == retryPc[i] # "armed"

\* C31: after the transcoder is stopped or the process has exited, the
\* monitor, the playlist watcher, the task waiting for the process and the
\* retry timer started for that process all end.
C31_TasksTerminate ==
    \A i \in Handles :
        (Monitored(i) /\ (stopChan = "closed" \/ i \notin alive))
            ~> (/\ MonitorEnded(i) /\ WatcherEnded(i)
                /\ WaitEnded(i) /\ RetryEnded(i))

\* the same without the playlist watcher
OthersTerminate ==
    \A i \in Handles :
        (Monitored(i) /\ (stopChan = "closed" \/ i \notin alive))
            ~> (MonitorEnded(i) /\ WaitEnded(i) /\ RetryEnded(i))

\* the status is Streaming only while the transcoder runs
StreamingOnlyWhileRunning == status = StatusStreaming => isRunning

\* the status becomes Streaming by the watcher of a process whose playlist
\* it has seen
StreamingOnlyAfterPlaylist ==
    [][(status # StatusStreaming /\ status' = StatusStreaming) =>
        \E i \in seen : i \in connected' \ connected]_vars

\* Stopped and Error are left by a Start or a restart only, never for
\* Streaming
TerminalPerAttempt ==
    [][(status = StatusStopped \/ status = StatusError) =>
        status' # StatusStreaming]_vars

\* C39: status Streaming is reported only for a running transcoder; it is
\* set only after the watcher saw a playlist modified within the last 10
\* seconds; an attempt that has reached Stopped or Error never changes to
\* Streaming, however the watcher interleaves with the process exit and
\* with Stop.
C39_StreamingOnlyWhileRunning ==
    /\ []StreamingOnlyWhileRunning
    /\ StreamingOnlyAfterPlaylist
    /\ TerminalPerAttempt

(***************************************************************************)
(* Start, Stop, Start on one transcoder                                    *)
(***************************************************************************)
\* the transcoder runs after a Stop has stopped it: it was started again
Again == stopChan = "closed" /\ isRunning

\* a Start that follows a Stop and launches the process leaves the
\* transcoder running with that process and its monitor
RunsAgain ==
    [][(stopChan = "closed" /\ startCalls' = startCalls + 1
            /\ startRet' = "ok" /\ ~isRunning) =>
        (isRunning' /\ cmd' \in alive' /\ monPc'[cmd'] = "wait")]_vars

\* started again, the transcoder stays running until Stop is called or its
\* process has exited
SupervisedAgain ==
    [][(Again /\ ~isRunning') =>
        (stopCalls' = stopCalls + 1 \/ cmd \notin alive)]_vars

\* started again, a Stop ends the process and returns
StopsAgain ==
    [][(Again /\ stopCalls' = stopCalls + 1) =>
        (~hlsPanicked' /\ ~isRunning' /\ cmd \notin alive')]_vars

\* C38: after Start, Stop, Start on one transcoder it is running and
\* supervised, isRunning staying true until its process exits or Stop is
\* called, and a further Stop ends the process and returns without failing.
C38_RestartAfterStop == RunsAgain /\ SupervisedAgain /\ StopsAgain

(***************************************************************************)
(* StopAll called more than once on the manager NewApp has made            *)
(***************************************************************************)
\* C37: every call of StopAll, the first as well as a later one, returns
\* normally and leaves no transcoder registered or running, and the cleanup
\* task is signalled to stop once.
C37_StopAllRepeatable ==
    [][StopAll =>
        /\ ~mgrPanicked'
        /\ stopCleanup' = "closed"
        /\ \A uid \in UIDs : transcoders'[uid] = 0
        /\ \A t \in 1..MaxTranscoders : ~tRunning'[t]]_vars

(***************************************************************************)
(* The delayed StartTranscoding and the end of the connection              *)
(***************************************************************************)
\* the handler has ended and autoStopStreaming has stopped the transcoder
TornDown == wsPc = "ended" /\ autoStart

\* a step of the goroutine autoStartStreaming or retryStreaming left
\* behind: its StartTranscoding makes a transcoder for the device
StartedForConnection ==
    /\ hlsPending' = hlsPending - 1
    /\ created' = created + 1
    /\ tUID'[created'] = WatchedUID

\* C40: after the connection of a device has closed and autoStopStreaming
\* has stopped its transcoder, the delayed StartTranscoding scheduled by
\* autoStartStreaming or retryStreaming for that connection starts no
\* transcoder.
C40_NoStartAfterTeardown == [][TornDown => ~StartedForConnection]_vars

(***************************************************************************)
(* Stream Request State and the outcome of the streaming requests          *)
(***************************************************************************)
\* awaitResponse of run t returns in this step
Answers(t) == tasks[t].pc = "await" /\ tasks'[t].pc # "await"

\* C33: Stream Request State follows the requests to start local streaming
\* only: a successful start sets Requested, a rejected start sets
\* RequestFailed, and the outcome of a STOPPED request, successful or not,
\* leaves Stream Request State as it was.
C33_RequestStateOnlyForStart ==
    [][\A t \in 1..nTasks :
        Answers(t) =>
            IF tasks[t].status = "STARTED"
            THEN /\ tasks'[t].outcome = "ok" =>
                        GetStreamRequestState(Baby')
                            = StreamRequestState_Requested
                 /\ tasks'[t].outcome = "limit" =>
                        GetStreamRequestState(Baby')
                            = StreamRequestState_RequestFailed
            ELSE GetStreamRequestState(Baby')
                    = GetStreamRequestState(Baby)]_vars

(***************************************************************************)
(* A response that arrives while its awaiter times out                     *)
(***************************************************************************)
\* the awaiter of call k has returned after its request was sent
Awaited(k) == cPc[k] = "done" /\ cResult[k].err # "failed to send request"

\* the awaiter returns the response or the timeout error, never both and
\* never neither
OneOutcome ==
    \A k \in Calls :
        Awaited(k) =>
            (cResult[k].err = "Request timeout" <=> cResult[k].res = NoFrame)

\* C34: however the delivery of the response to request N interleaves with
\* the timeout of the awaiter of N, the awaiter returns exactly one of the
\* response and the timeout error, and the delivery never sends on the
\* closed response channel: the receive path does not panic.
C34_DeliveryTimeoutRace == OneOutcome /\ ~panicked

(***************************************************************************)
(* The liveness of a device: the publishers of the RTMP server and the     *)
(* end of the websocket handler write it                                   *)
(***************************************************************************)
NextLiveness ==
    \/ \E p \in Pubs : PublisherConnect(p)
    \/ \E p \in Pubs, t \in ClockReadings :
        pktCount < LifecyclePackets /\ ReadPacket(p, t)
    \/ \E p \in Pubs : ReadError(p)
    \/ \E p \in Pubs : PublisherCloseSubscribers(p)
    \/ ReadyConnection
    \/ CtxCancel
    \/ Cleanup
    \/ HandlerDefer
    \/ \E t \in 1..MaxTasks : SendStreaming(t)
    \/ \E t \in 1..MaxTasks : AwaitStreaming(t, "ok")

SpecLiveness == InitApp /\ [][NextLiveness]_vars

\* a publisher connects in this step
Connects == \E p \in Pubs : pPc[p] = "idle" /\ pPc'[p] = "read"

\* the read of a publisher fails in this step
ReadFails == \E p \in Pubs : pPc[p] = "read" /\ pPc'[p] = "closesubs"

\* the handler of the websocket ends in this step and runs autoStopStreaming
AutoStops == HandlerEnds /\ autoStart

\* C32: the liveness of a device becomes Alive when a publisher connects,
\* by the merge that resets Stream Request State to NotRequested; it
\* becomes Unhealthy when the read of a publisher fails or when auto-stop
\* tears the websocket connection down; it changes in no other step, and
\* once it has a value it is never Unknown again.
C32_LivenessTransitions ==
    [][LET old == GetStreamState(Baby)
           new == GetStreamState(Baby')
       IN  /\ Connects =>
                /\ new = StreamState_Alive
                /\ GetStreamRequestState(Baby')
                        = StreamRequestState_NotRequested
           /\ (ReadFails \/ AutoStops) => new = StreamState_Unhealthy
           /\ new # old => (Connects \/ ReadFails \/ AutoStops)
           /\ old # StreamState_Unknown => new # StreamState_Unknown]_vars

\* C32 witness: a publisher connected after a request was answered, its
\* read failed, another publisher made the device Alive again, and the end
\* of the handler with AutoStart has made it Unhealthy
C32_Witness ==
    /\ wsPc = "ended" /\ autoStart
    /\ \E p \in Pubs, q \in Pubs : pPc[p] = "done" /\ pPc[q] = "read"
    /\ GetStreamState(Baby) = StreamState_Unhealthy
    /\ GetStreamRequestState(Baby) = StreamRequestState_NotRequested
    /\ \E t \in 1..nTasks :
        tasks[t].status = "STARTED" /\ tasks[t].outcome = "ok"

(***************************************************************************)
(* A publisher that was superseded by a newer one                          *)
(***************************************************************************)
\* publisher p is the registered one of the device
Current(p) == HasBroadcaster(StreamUID) /\ broadcastersByUID[StreamUID] = p

\* the closePublisher of p takes its locked part in this step, after the
\* read of p has failed
Fails(p) == pPc[p] = "read" /\ pPc'[p] = "closesubs"

\* while the registered publisher is reading packets the device is Alive
AliveWhilePublishing ==
    \A p \in Pubs :
        (Current(p) /\ pPc[p] = "read") =>
            GetStreamState(babiesByUID[StreamUID]) = StreamState_Alive

\* the failed read of a publisher that is not the registered one leaves the
\* liveness and the last packet time of the device as they were
SupersededFailureIgnored ==
    [][\A p \in Pubs :
        (Fails(p) /\ HasBroadcaster(StreamUID) /\ ~Current(p)) =>
            LET old == babiesByUID[StreamUID]
                new == babiesByUID'[StreamUID]
            IN  /\ GetStreamState(new) = GetStreamState(old)
                /\ new.sc["LastVideoPacketTime"]
                        = old.sc["LastVideoPacketTime"]]_vars

\* C35: whenever the device has a registered publisher whose connection is
\* delivering packets its liveness is Alive; the read failure of a
\* publisher that a newer one has superseded neither marks the device
\* Unhealthy nor resets its last-video-packet time.
C35_SupersededFailureKeepsAlive ==
    []AliveWhilePublishing /\ SupersededFailureIgnored

\* publishers replacing one another and failing, subscribers joining
NextSupersede ==
    \/ \E p \in Pubs : PublisherConnect(p)
    \/ \E p \in Pubs : ReadError(p)
    \/ \E p \in Pubs : PublisherCloseSubscribers(p)
    \/ \E b \in Pubs : Teardown(b)
    \/ \E s \in Subs : SubscriberLookup(s)
    \/ \E s \in Subs : SubscriberReject(s)
    \/ \E s \in Subs : SubscriberAttach(s)
    \/ \E s \in Subs : SubscriberQuit(s)

SpecSupersede == InitCast /\ [][NextSupersede]_vars

\* the queues of the subscribers of the registered publisher are open while
\* it reads
OpenWhileCurrent ==
    \A q \in Pubs :
        (Current(q) /\ pPc[q] = "read") =>
            \A s \in subscribers[q] : ~pktC[s].closed

\* the locked part of closePublisher deletes the entry when it holds the
\* broadcaster being closed and leaves the registry alone when it does not
DeletesOwnEntryOnly ==
    [][\A p \in Pubs :
        Fails(p) =>
            IF Current(p) THEN ~HasBroadcaster(StreamUID)'
            ELSE broadcastersByUID' = broadcastersByUID]_vars

\* closeSubscribers of the broadcaster being closed leaves the fan-out sets
\* and the queues of the other broadcasters alone
ClosesOwnSubscribersOnly ==
    [][\A p \in Pubs :
        SubscribersClosed(p) =>
            \A q \in Pubs \ {p} :
                /\ subscribers'[q] = subscribers[q]
                /\ \A s \in subscribers[q] : pktC'[s] = pktC[s]]_vars

\* a subscribe call for a device with a registry entry gets the registered
\* broadcaster
SubscribeFindsCurrent ==
    [][\A s \in Subs :
        (Entered(s) /\ HasBroadcaster(StreamUID)) =>
            (sPc'[s] = "attach" /\ sB'[s] = broadcastersByUID[StreamUID])]_vars

\* C36: closePublisher removes the registry entry of the device only if it
\* is still the broadcaster being closed: when a superseded publisher
\* disconnects after a newer one has registered, the newer one stays
\* registered, its subscribers stay open, and a later subscribe call for the
\* device still succeeds.
C36_SupersededCloseKeepsNewer ==
    /\ []OpenWhileCurrent
    /\ DeletesOwnEntryOnly
    /\ ClosesOwnSubscribersOnly
    /\ SubscribeFindsCurrent

\* C36 witness: the first publisher was superseded by the second and has
\* closed; the second is registered and reading, a subscriber that joined
\* after the replacement is in its fan-out set with an open queue, and the
\* subscriber of the first was closed
C36_Witness ==
    /\ pPc[1] = "done" /\ Current(2) /\ pPc[2] = "read"
    /\ sB[1] = 1 /\ pktC[1].closed
    /\ sB[2] = 2 /\ subscribers[2] = {2} /\ ~pktC[2].closed

====
